---- MODULE Spec2Model ----
(***************************************************************************)
(* Registry adapter API: the idempotency guard, the operation handlers     *)
(* (issuance, retirement, anchoring), the receipt store and the ledger     *)
(* transaction executor (sendTransaction), as one state machine.           *)
(* Every request is one process; it suspends at the store and ledger       *)
(* round trips (the awaits of the source), which are the steps below.      *)
(***************************************************************************)
EXTENDS Integers, Sequences, FiniteSets, TLC

\* ------------------------------------------------------------------ bounds
NumReqs == 2
Reqs == 1..NumReqs
\* the number of failures the environment (store, ledger, network) injects
MaxFaults == 3

\* ------------------------------------------------------- program constants
\* sendTransaction(transaction, maxRetries = 3)
maxRetries == 3

\* ------------------------------------------------------------- input sets
Keys == {"K1", "K2"}
Orgs == {"ORG001"}
Bodies ==
  { [kind |-> "RETIRE", classId |-> "A", holder |-> "0xh2", quantity |-> 100],
    [kind |-> "RETIRE", classId |-> "B", holder |-> "0xh2", quantity |-> 100],
    [kind |-> "ISSUE",  classId |-> "A", projectId |-> <<"P">>,
     vintageStart |-> "2010-01-01", vintageEnd |-> "2019-12-30"],
    [kind |-> "ANCHOR", classId |-> "none"] }

NoReq == [key |-> "none", body |-> [kind |-> "none", classId |-> "none"], org |-> "none"]
NoHash == <<>>
NoTx == <<>>
\* no createTokenMapping call in progress
NoCreate == [classId |-> "none", chainId |-> "none", contractAddress |-> "none",
             tokenId |-> "none", existing |-> FALSE]
NoTriple == [projectId |-> "none", vintageStart |-> "none", vintageEnd |-> "none"]
NoRecord == [method |-> "none", path |-> "none", bodyHash |-> NoHash,
             orgId |-> "none", receiptId |-> 0]

\* ----------------------------------------------------------- pure helpers
\* routes: the path each operation kind is served on
routerPath(kind) ==
  CASE kind = "ISSUE"  -> "/v1/credit/issuance/finalize"
    [] kind = "RETIRE" -> "/v1/credit/retire"
    [] kind = "ANCHOR" -> "/v1/anchor"
    [] kind = "TOKEN_MINT"   -> "/v1/token/mint"
    [] kind = "TOKEN_BURN"   -> "/v1/token/burn"
    [] kind = "TOKEN_BRIDGE" -> "/v1/token/bridge"
    [] OTHER           -> "none"

\* the receipt type each handler writes
receiptType(kind) ==
  CASE kind = "ISSUE"  -> "MINT"
    [] kind = "RETIRE" -> "RETIRE"
    [] kind = "ANCHOR" -> "ANCHOR"
    [] kind = "TOKEN_MINT" -> "MINT"
    [] kind = "TOKEN_BURN" -> "RETIRE"
    [] OTHER           -> "none"

\* a JSON value as the parser leaves it: a scalar, or an object whose fields
\* keep the order they were sent in
Atom(x) == [type |-> "atom", value |-> x]
Object(fields) == [type |-> "object", fields |-> fields]

\* the field names in use, in the order Array.prototype.sort gives strings
JsonKeyOrder ==
  <<"classId", "holder", "kind", "meta", "projectId", "quantity", "vintageEnd",
    "vintageStart">>

\* Object.keys: the names of the object's own fields, in insertion order
ObjectKeys(obj) == [i \in 1..Len(obj.fields) |-> obj.fields[i][1]]

\* Array.prototype.sort on field names
sort(keys) ==
  SelectSeq(JsonKeyOrder, LAMBDA k : \E i \in 1..Len(keys) : keys[i] = k)

\* the value of the field named k
FieldValue(obj, k) ==
  obj.fields[CHOOSE i \in 1..Len(obj.fields) : obj.fields[i][1] = k][2]

\* JSON.stringify(value, replacer) with an array replacer: at every level of
\* nesting an object is written with the fields the array names, in the
\* array's order; the text is modelled by the sequence of what is written
RECURSIVE stringify(_, _)
stringify(value, replacer) ==
  IF value.type = "atom" THEN <<"atom", value.value>>
  ELSE LET written == SelectSeq(replacer,
                        LAMBDA k : \E i \in 1..Len(value.fields) : value.fields[i][1] = k)
       IN <<"object", [i \in 1..Len(written) |->
                         <<written[i], stringify(FieldValue(value, written[i]), replacer)>>]>>

\* a body hash taken over the fields in the order they were sent
generateBodyHashUnsorted(body) ==
  <<"keccak256", stringify(body, ObjectKeys(body))>>

\* keccak256 of JSON.stringify(body, Object.keys(body).sort()); the hash is
\* modelled as an injective tag of the text
generateBodyHash(body) ==
  <<"keccak256", stringify(body, sort(ObjectKeys(body)))>>

\* the fields of a request body, in the order the caller sent them
BodyFields ==
  <<"kind", "classId", "holder", "quantity", "projectId", "vintageStart", "vintageEnd">>

\* request.body of a request
requestBody(body) ==
  LET sent == SelectSeq(BodyFields, LAMBDA k : k \in DOMAIN body)
  IN Object([i \in 1..Len(sent) |-> <<sent[i], Atom(body[sent[i]])>>])

\* keccak256 of `${hash}-${blockNumber}-${gasUsed}`
generateOnchainHash(txHash, blockNumber, gasUsed) ==
  <<"keccak256", txHash, blockNumber, gasUsed>>

\* errors: an AppError carries a code; any other throwable does not
\* (the trace id of request r is r; an error built without one has none)
NoTrace == 0
AppError(code, message) ==
  [isApp |-> TRUE, code |-> code, message |-> message, traceId |-> NoTrace]
PlainError(message) ==
  [isApp |-> FALSE, code |-> "none", message |-> message, traceId |-> NoTrace]
NoError == [isApp |-> FALSE, code |-> "none", message |-> "none", traceId |-> NoTrace]

\* a guard that leaves the organisation out of the comparison
checkIdempotencyIgnoresOrg(table, method, path, bodyHash, orgId, idempotencyKey) ==
  LET existing == table[idempotencyKey] IN
  IF existing = NoRecord
    THEN [kind |-> "first", isReplay |-> FALSE, existingReceiptId |-> 0]
  ELSE IF /\ existing.method = method
          /\ existing.path = path
          /\ existing.bodyHash = bodyHash
    THEN [kind |-> "replay", isReplay |-> TRUE, existingReceiptId |-> existing.receiptId]
  ELSE [kind |-> "conflict", isReplay |-> FALSE, existingReceiptId |-> 0]

\* a guard that reports a replay without the receipt the key is bound to
checkIdempotencyDropsReceipt(table, method, path, bodyHash, orgId, idempotencyKey) ==
  LET existing == table[idempotencyKey] IN
  IF existing = NoRecord
    THEN [kind |-> "first", isReplay |-> FALSE, existingReceiptId |-> 0]
  ELSE IF /\ existing.method = method
          /\ existing.path = path
          /\ existing.bodyHash = bodyHash
          /\ existing.orgId = orgId
    THEN [kind |-> "replay", isReplay |-> TRUE, existingReceiptId |-> 0]
  ELSE [kind |-> "conflict", isReplay |-> FALSE, existingReceiptId |-> 0]

\* the idempotency guard's decision for one request against the stored table
checkIdempotency(table, method, path, bodyHash, orgId, idempotencyKey) ==
  LET existing == table[idempotencyKey] IN
  IF existing = NoRecord
    THEN [kind |-> "first", isReplay |-> FALSE, existingReceiptId |-> 0]
  ELSE IF /\ existing.method = method
          /\ existing.path = path
          /\ existing.bodyHash = bodyHash
          /\ existing.orgId = orgId
    THEN [kind |-> "replay", isReplay |-> TRUE, existingReceiptId |-> existing.receiptId]
  ELSE [kind |-> "conflict", isReplay |-> FALSE, existingReceiptId |-> 0]

\* a catch block that gives up one attempt early
CatchAttemptGivesUpEarly(attemptNo, e) ==
  IF attemptNo >= maxRetries - 1
    THEN [retry |-> FALSE,
          error |-> IF e.isApp THEN e
                    ELSE AppError("TX_REVERTED", "Transaction failed after attempts")]
    ELSE [retry |-> TRUE, error |-> e]

\* a catch block that gives up one attempt late
CatchAttemptGivesUpLate(attemptNo, e) ==
  IF attemptNo = maxRetries + 1
    THEN [retry |-> FALSE,
          error |-> IF e.isApp THEN e
                    ELSE AppError("TX_REVERTED", "Transaction failed after attempts")]
    ELSE [retry |-> TRUE, error |-> e]

\* the catch block of sendTransaction's loop: rethrow on the last attempt
\* (an AppError as it is, anything else wrapped as TX_REVERTED), otherwise
\* back off and try again
CatchAttempt(attemptNo, e) ==
  IF attemptNo = maxRetries
    THEN [retry |-> FALSE,
          error |-> IF e.isApp THEN e
                    ELSE AppError("TX_REVERTED", "Transaction failed after attempts")]
    ELSE [retry |-> TRUE, error |-> e]

\* a backoff that counts the attempts from 0
backoffDelayFromZero(attemptNo) == (2 ^ (attemptNo - 1)) * 1000

\* Math.pow(2, attempt) * 1000
backoffDelay(attemptNo) == (2 ^ attemptNo) * 1000

\* the failure a handler writes on the receipt in its catch block
failureCode(e) == IF e.isApp THEN e.code ELSE "TX_REVERTED"

\* what the outer catch of a handler throws on
handlerThrows(e, traceId) ==
  IF e.isApp THEN e
  ELSE [AppError("INTERNAL_ERROR", "Failed") EXCEPT !.traceId = traceId]

\* a project identifier is its sequence of characters
Whitespace == {" "}

\* String.prototype.trim: the string without its leading and trailing whitespace
RECURSIVE trim(_)
trim(str) ==
  IF str = <<>> THEN str
  ELSE IF Head(str) \in Whitespace THEN trim(Tail(str))
  ELSE IF str[Len(str)] \in Whitespace THEN trim(SubSeq(str, 1, Len(str) - 1))
  ELSE str

\* the vintage dates tried, as the date strings a request carries
VintageDates == {"2010-01-01", "2010-01-02", "2019-12-30", "2019-12-31", "2020-01-01"}

\* new Date(string).getTime(), counted in days from 2010-01-01 instead of
\* milliseconds from 1970 (2012 and 2016 are leap years)
getTime(date) ==
  CASE date = "2010-01-01" -> 0
    [] date = "2010-01-02" -> 1
    [] date = "2019-12-30" -> 3650
    [] date = "2019-12-31" -> 3651
    [] date = "2020-01-01" -> 3652
    [] date = "2020-12-31" -> 4017

\* 10 * 365 * 24 * 60 * 60 * 1000 milliseconds, in days
maxDuration == 10 * 365

\* a validation without the check of the window's length
validateClassMappingAnySpan(projectId, vintageStart, vintageEnd) ==
  IF Len(projectId) = 0 \/ Len(trim(projectId)) = 0
    THEN AppError("BAD_REQUEST", "Project ID is required")
  ELSE IF getTime(vintageStart) >= getTime(vintageEnd)
    THEN AppError("BAD_REQUEST", "Vintage start date must be before end date")
  ELSE NoError

\* validateClassMapping: the error it throws, NoError when it returns
validateClassMapping(projectId, vintageStart, vintageEnd) ==
  IF Len(projectId) = 0 \/ Len(trim(projectId)) = 0
    THEN AppError("BAD_REQUEST", "Project ID is required")
  ELSE IF getTime(vintageStart) >= getTime(vintageEnd)
    THEN AppError("BAD_REQUEST", "Vintage start date must be before end date")
  ELSE IF getTime(vintageEnd) - getTime(vintageStart) > maxDuration
    THEN AppError("BAD_REQUEST", "Vintage window cannot exceed 10 years")
  ELSE NoError

\* the holders tried and what the provider reports as their native balance
Holders == {"0xh1", "0xh2"}
nativeBalance(address) == IF address = "0xh1" THEN 0 ELSE 5000

\* getBalance(address, tokenId): a fixed 1000 whenever a token id is given,
\* the provider's native balance of the address otherwise
getBalance(address, tokenId) ==
  IF tokenId # "" THEN 1000 ELSE nativeBalance(address)

\* the checks of retireCredits before its receipt is created: the quantity,
\* then the pre-flight balance, read with the class id as token id
retireRejects(body, traceId) ==
  IF body.quantity <= 0
    THEN [AppError("BAD_REQUEST", "Quantity must be positive") EXCEPT !.traceId = traceId]
  ELSE IF getBalance(body.holder, body.classId) < body.quantity
    THEN [AppError("INSUFFICIENT_BALANCE", "Insufficient balance")
            EXCEPT !.traceId = traceId]
  ELSE NoError

\* a handler without the pre-flight balance check
handlerRejectsNoPreflight(body, traceId) ==
  IF body.kind \in {"ISSUE", "TOKEN_MINT"}
    THEN IF "projectId" \in DOMAIN body
           THEN validateClassMapping(body.projectId, body.vintageStart, body.vintageEnd)
           ELSE AppError("BAD_REQUEST", "Project ID is required")
  ELSE IF body.kind \in {"RETIRE", "TOKEN_BURN"} /\ body.quantity <= 0
    THEN [AppError("BAD_REQUEST", "Quantity must be positive") EXCEPT !.traceId = traceId]
  ELSE NoError

\* what a handler checks before it creates the receipt: finalizeIssuance
\* validates the class mapping, retireCredits the quantity and the balance;
\* anchorEvidence has nothing to check on a schema-valid request
handlerRejects(body, traceId) ==
  IF body.kind \in {"ISSUE", "TOKEN_MINT"}
    THEN IF "projectId" \in DOMAIN body
           THEN validateClassMapping(body.projectId, body.vintageStart, body.vintageEnd)
           ELSE AppError("BAD_REQUEST", "Project ID is required")
  ELSE IF body.kind \in {"RETIRE", "TOKEN_BURN"}
    THEN retireRejects(body, traceId)
  ELSE NoError

\* the routes of the token domain
TokenKinds == {"TOKEN_MINT", "TOKEN_BURN", "TOKEN_BRIDGE"}

\* the roles a token's claims can carry
Roles == {"ADMIN", "VERIFIER", "ISSUER", "BURNER", "EVIDENCE", "VIEWER"}

\* authenticateRequest: the context it returns holds the verified claims and
\* the trace id; its optional role field is never set
authenticateRequest(claims, traceId) ==
  [claims |-> claims, traceId |-> traceId, role |-> "undefined"]

\* ------------------------------------------------------------------ state
VARIABLES
  pc,           \* where each request is
  req,          \* the request: idempotency key, body, organisation
  arrived,      \* the requests that had been answered when this one arrived
  idempotency,  \* the idempotency table, by key
  receipts,     \* the receipt table: receipt id = index
  rid,          \* the receipt a handler created (receipt.id)
  attempt,      \* sendTransaction's loop counter
  outcomes,     \* what the ledger did at each attempt of the request
  delays,       \* the backoff delays sendTransaction slept
  txOutcome,    \* how the request's sendTransaction call ended
  error,        \* the error a handler's catch block holds
  ledger,       \* the ledger: the state of each submitted transaction
  height,       \* the ledger's block height
  resp,         \* the response sent to the caller
  faults,       \* the failures the environment has injected so far
  classMap,     \* the class mapping table (rows of class_maps)
  resolving,    \* the triple each running resolveClassId call found no row for
  resolved,     \* what the resolveClassId calls have returned so far
  lib,          \* the last two calls of the pure library functions, newest last
  auditEvents,  \* what became of each request's audit event
  classIdOf,    \* the class id resolveClassId returned to each issuance
  tokenMap,     \* the token mapping table (rows of token_maps)
  creating      \* the request of each createTokenMapping call between its awaits

\* the class mapping table and the calls of resolveClassId
\* the token mapping table and the calls of createTokenMapping
tokenVars == <<tokenMap, creating>>

classVars == <<classMap, resolving, resolved, classIdOf, tokenMap, creating>>

vars == <<pc, req, arrived, idempotency, receipts, rid, attempt, outcomes, delays,
          txOutcome, error, ledger, height, resp, faults, classMap, resolving,
          resolved, lib, auditEvents, classIdOf, tokenMap, creating>>

\* the environment injects one more failure
Fault == faults < MaxFaults /\ faults' = faults + 1
NoFault == faults' = faults

TxIds == Reqs \X (1..maxRetries)
NoResp == [status |-> 0, code |-> "none", receiptId |-> 0, txHash |-> NoTx]
NoOutcome == [state |-> "none", code |-> "none", txHash |-> NoTx, blockNumber |-> 0,
              onchainHash |-> NoHash]

Init ==
  /\ pc = [r \in Reqs |-> "idle"]
  /\ req = [r \in Reqs |-> NoReq]
  /\ arrived = [r \in Reqs |-> {}]
  /\ idempotency = [k \in Keys |-> NoRecord]
  /\ receipts = <<>>
  /\ rid = [r \in Reqs |-> 0]
  /\ attempt = [r \in Reqs |-> 0]
  /\ outcomes = [r \in Reqs |-> <<>>]
  /\ delays = [r \in Reqs |-> <<>>]
  /\ txOutcome = [r \in Reqs |-> NoOutcome]
  /\ error = [r \in Reqs |-> NoError]
  /\ ledger = [t \in TxIds |-> "none"]
  /\ height = 0
  /\ resp = [r \in Reqs |-> NoResp]
  /\ faults = 0
  /\ classMap = {}
  /\ resolving = [c \in Reqs |-> NoTriple]
  /\ resolved = {}
  /\ lib = <<>>
  /\ auditEvents = [r \in Reqs |-> "none"]
  /\ classIdOf = [r \in Reqs |-> <<>>]
  /\ tokenMap = {}
  /\ creating = [c \in Reqs |-> NoCreate]


\* ----------------------------------------------------------- the pipeline
\* a request arrives (requests are numbered in arrival order); it is
\* authenticated and schema-valid, with a quantity the pre-flight balance
\* check lets through
Submit(r) ==
  /\ pc[r] = "idle"
  /\ \A q \in Reqs : q < r => pc[q] # "idle"
  /\ \E k \in Keys, b \in Bodies, o \in Orgs :
       req' = [req EXCEPT ![r] = [key |-> k, body |-> b, org |-> o]]
  /\ arrived' = [arrived EXCEPT ![r] = {q \in Reqs : pc[q] = "done"}]
  /\ pc' = [pc EXCEPT ![r] = "preHandler"]
  /\ UNCHANGED <<idempotency, receipts, rid, attempt, outcomes, delays, txOutcome,
                 error, ledger, height, resp, faults>>
  /\ UNCHANGED classVars
  /\ lib' = lib
  /\ auditEvents' = auditEvents

\* reply.status(s).send(...) followed by the end of the request
Reply(r, response) ==
  /\ resp' = [resp EXCEPT ![r] = response]
  /\ pc' = [pc EXCEPT ![r] = "done"]

ErrorReply(e, statusCode) ==
  [status |-> statusCode, code |-> e.code, message |-> e.message, traceId |-> e.traceId,
   receiptId |-> 0, txHash |-> NoTx]

\* the error response the idempotency middleware's catch block sends for an
\* AppError: the trace id is request.id
MiddlewareErrorReply(e, statusCode, requestId) ==
  [ErrorReply(e, statusCode) EXCEPT !.traceId = requestId]

\* the HTTP method of the route a request of this kind is sent to
routeMethod(kind) == IF kind = "GET" THEN "GET" ELSE "POST"

\* the methods the idempotency middleware looks at
MutatingMethods == {"POST", "PUT", "PATCH", "DELETE"}

\* IdempotencyKeySchema.parse: the keys of Keys stand for UUID strings, every
\* other header value fails z.string().uuid()
IdempotencyKeySchema(key) == key \in Keys

\* extractIdempotencyKey: the error it throws for the header value, NoError
\* when it returns the key; an absent header reads as undefined, and !key is
\* also true of the empty string
extractIdempotencyKey(key) ==
  IF key \in {"undefined", ""}
    THEN AppError("BAD_REQUEST", "Idempotency-Key header is required")
  ELSE IF ~IdempotencyKeySchema(key)
    THEN AppError("BAD_REQUEST", "Invalid Idempotency-Key format")
  ELSE NoError

\* the preHandler hook: return at once for a method that does not mutate;
\* otherwise extract the key, check it, answer a replay from the stored
\* receipt, answer a conflict with 409, otherwise let the handler run
IdempotencyMiddleware(r) ==
  /\ pc[r] = "preHandler"
  /\ LET toHandler == pc' = [pc EXCEPT ![r] = "handler"] /\ resp' = resp IN
     IF routeMethod(req[r].body.kind) \notin MutatingMethods
       THEN /\ NoFault
            /\ toHandler
     ELSE IF extractIdempotencyKey(req[r].key) # NoError
       THEN /\ NoFault
            /\ Reply(r, MiddlewareErrorReply(extractIdempotencyKey(req[r].key), 400, r))
     ELSE
     \/ \* the store read fails: checkIdempotency throws DATABASE_ERROR
        /\ Fault
        /\ Reply(r, MiddlewareErrorReply(AppError("DATABASE_ERROR",
                                                 "Failed to check idempotency"), 500, r))
     \/ LET check == checkIdempotency(idempotency, routeMethod(req[r].body.kind),
                                      routerPath(req[r].body.kind),
                                      generateBodyHash(requestBody(req[r].body)), req[r].org, req[r].key)
        IN
        IF check.kind = "conflict"
          THEN /\ NoFault
               /\ Reply(r, MiddlewareErrorReply(AppError("IDEMPOTENT_REPLAY", "key already used"),
                                                409, r))
        ELSE IF check.isReplay /\ check.existingReceiptId # 0
          THEN \/ /\ NoFault
                  /\ IF check.existingReceiptId \in DOMAIN receipts
                       THEN Reply(r, [status |-> 200, code |-> "OK",
                                      receiptId |-> check.existingReceiptId,
                                      txHash |-> receipts[check.existingReceiptId].txHash])
                       ELSE toHandler
               \/ \* the receipt read fails: the error goes to the error handler
                  /\ Fault
                  /\ Reply(r, ErrorReply(PlainError("store"), 500))
        ELSE /\ NoFault
             /\ toHandler
  /\ UNCHANGED <<req, arrived, idempotency, receipts, rid, attempt, outcomes, delays,
                 txOutcome, error, ledger, height>>
  /\ UNCHANGED classVars
  /\ lib' = lib
  /\ auditEvents' = auditEvents

\* an audit step that lets the store's failure out to the route handler
createAuditEventThrows(r) ==
  /\ pc[r] = "handler"
  /\ req[r].body.kind \notin TokenKinds \cup {"GET"}
  /\ \/ /\ auditEvents' = [auditEvents EXCEPT ![r] = "written"]
        /\ pc' = [pc EXCEPT ![r] = "audited"]
        /\ resp' = resp
        /\ NoFault
     \/ /\ Fault
        /\ auditEvents' = [auditEvents EXCEPT ![r] = "failed"]
        /\ Reply(r, ErrorReply(PlainError("store"), 500))
  /\ UNCHANGED <<req, arrived, idempotency, receipts, rid, attempt, outcomes, delays,
                 txOutcome, error, ledger, height>>
  /\ UNCHANGED classVars
  /\ lib' = lib

\* the route handler's audit step: prisma.auditEvent.create, whose failure
\* createAuditEvent logs and swallows
createAuditEvent(r) ==
  /\ pc[r] = "handler"
  /\ req[r].body.kind \notin TokenKinds \cup {"GET"}
  /\ \/ /\ auditEvents' = [auditEvents EXCEPT ![r] = "written"]
        /\ NoFault
     \/ /\ Fault
        /\ auditEvents' = [auditEvents EXCEPT ![r] = "failed"]
  /\ pc' = [pc EXCEPT ![r] = "audited"]
  /\ UNCHANGED <<req, arrived, idempotency, receipts, rid, attempt, outcomes, delays,
                 txOutcome, error, ledger, height, resp>>
  /\ UNCHANGED classVars
  /\ lib' = lib

\* a handler that ignores the class id the request carries
requestClassIdIgnored(body, resolvedClassId) == resolvedClassId

\* finalizeIssuance's request.classId || await resolveClassId(...): the class
\* id of the body when it has one, otherwise the resolved one
requestClassId(body, resolvedClassId) ==
  IF "classId" \in DOMAIN body THEN body.classId ELSE resolvedClassId

\* the handler has yet to call resolveClassId: an issuance without a class
\* id of its own, validated, with nothing resolved so far
NeedsResolve(r) ==
  /\ req[r].body.kind \in {"ISSUE", "TOKEN_MINT"}
  /\ "classId" \notin DOMAIN req[r].body
  /\ classIdOf[r] = <<>>

\* the row prisma.receipt.create writes
PendingReceipt(r) ==
  [type |-> receiptType(req[r].body.kind),
   classId |-> requestClassId(req[r].body, classIdOf[r]),
   orgId |-> req[r].org, status |-> "PENDING", txHash |-> NoTx, blockNumber |-> 0,
   onchainHash |-> NoHash, errorCode |-> "none", errorMessage |-> "none"]

\* a handler that goes on to the ledger call without writing the receipt
CreateReceiptNotPersisted(r) ==
  /\ pc[r] = "audited"
  /\ pc' = [pc EXCEPT ![r] = "created"]
  /\ UNCHANGED <<req, arrived, idempotency, receipts, rid, attempt, outcomes, delays,
                 txOutcome, error, ledger, height, resp, faults>>
  /\ UNCHANGED classVars
  /\ lib' = lib
  /\ auditEvents' = auditEvents

\* the handler up to and including prisma.receipt.create
CreateReceipt(r) ==
  /\ pc[r] = "audited"
  /\ handlerRejects(req[r].body, r) # NoError \/ ~NeedsResolve(r)
  /\ IF handlerRejects(req[r].body, r) # NoError
       THEN \* the validation throws: the outer catch passes the AppError on
            /\ Reply(r, ErrorReply(handlerThrows(handlerRejects(req[r].body, r), r), 400))
            /\ UNCHANGED <<receipts, rid>>
            /\ NoFault
       ELSE \/ /\ receipts' = Append(receipts, PendingReceipt(r))
               /\ rid' = [rid EXCEPT ![r] = Len(receipts) + 1]
               /\ pc' = [pc EXCEPT ![r] = "created"]
               /\ resp' = resp
               /\ NoFault
            \/ \* the create fails: the outer catch answers INTERNAL_ERROR
               /\ Fault
               /\ Reply(r, ErrorReply(handlerThrows(PlainError("store"), r), 500))
               /\ UNCHANGED <<receipts, rid>>
  /\ UNCHANGED <<req, arrived, idempotency, attempt, outcomes, delays, txOutcome,
                 error, ledger, height>>
  /\ UNCHANGED classVars
  /\ lib' = lib
  /\ auditEvents' = auditEvents

\* building the ledger call inside the handler's inner try: retirement and
\* anchoring populate the transaction and enter sendTransaction; issuance
\* reads appConfig.REGISTRY_URL, a name its module never imports, and throws
PrepareTransaction(r) ==
  /\ pc[r] = "created"
  /\ IF req[r].body.kind \in {"ISSUE", "TOKEN_MINT"}
       THEN /\ error' = [error EXCEPT ![r] = PlainError("appConfig is not defined")]
            /\ pc' = [pc EXCEPT ![r] = "updateFailed"]
            /\ attempt' = attempt
       ELSE /\ attempt' = [attempt EXCEPT ![r] = 1]
            /\ pc' = [pc EXCEPT ![r] = "send"]
            /\ error' = error
  /\ UNCHANGED <<req, arrived, idempotency, receipts, rid, outcomes, delays, txOutcome,
                 ledger, height, resp, faults>>
  /\ UNCHANGED classVars
  /\ lib' = lib
  /\ auditEvents' = auditEvents

\* ----------------------------------------------------- sendTransaction
\* the loop's catch block after attempt[r] failed with e
AttemptFailed(r, e, what) ==
  LET c == CatchAttempt(attempt[r], e) IN
  /\ Fault
  /\ outcomes' = [outcomes EXCEPT ![r] = Append(@, what)]
  /\ IF c.retry
       THEN /\ delays' = [delays EXCEPT ![r] = Append(@, backoffDelay(attempt[r]))]
            /\ attempt' = [attempt EXCEPT ![r] = @ + 1]
            /\ pc' = [pc EXCEPT ![r] = "send"]
            /\ UNCHANGED <<txOutcome, error>>
       ELSE /\ txOutcome' = [txOutcome EXCEPT ![r] =
                 [state |-> "threw", code |-> c.error.code, txHash |-> NoTx,
                  blockNumber |-> 0, onchainHash |-> NoHash]]
            /\ error' = [error EXCEPT ![r] = c.error]
            /\ pc' = [pc EXCEPT ![r] = "updateFailed"]
            /\ UNCHANGED <<delays, attempt>>

\* signer.sendTransaction(transaction): the ledger accepts the transaction,
\* or the call fails and nothing was accepted
SendTx(r) ==
  /\ pc[r] = "send"
  /\ \/ /\ ledger' = [ledger EXCEPT ![<<r, attempt[r]>>] = "pending"]
        /\ pc' = [pc EXCEPT ![r] = "wait"]
        /\ UNCHANGED <<attempt, outcomes, delays, txOutcome, error, faults>>
     \/ /\ AttemptFailed(r, PlainError("network error"), "neterr")
        /\ ledger' = ledger
  /\ UNCHANGED <<req, arrived, idempotency, receipts, rid, height, resp>>
  /\ UNCHANGED classVars
  /\ lib' = lib
  /\ auditEvents' = auditEvents

GasUsed == {21000}

\* tx.wait(CONFIRMATIONS): a receipt with status 1, a receipt with status 0,
\* no receipt, or a failure of the wait itself
WaitTx(r) ==
  /\ pc[r] = "wait"
  /\ LET tx == <<r, attempt[r]>> IN
     \/ \E g \in GasUsed :
          /\ ledger' = [ledger EXCEPT ![tx] = "mined"]
          /\ height' = height + 1
          /\ outcomes' = [outcomes EXCEPT ![r] = Append(@, "ok")]
          /\ txOutcome' = [txOutcome EXCEPT ![r] =
               [state |-> "returned", code |-> "OK", txHash |-> tx,
                blockNumber |-> height + 1,
                onchainHash |-> generateOnchainHash(tx, height + 1, g)]]
          /\ pc' = [pc EXCEPT ![r] = "updateMined"]
          /\ UNCHANGED <<attempt, delays, error, faults>>
     \/ /\ ledger' = [ledger EXCEPT ![tx] = "reverted"]
        /\ height' = height + 1
        /\ AttemptFailed(r, AppError("TX_REVERTED", "Transaction reverted"), "revert")
     \/ /\ AttemptFailed(r, AppError("TX_TIMEOUT", "Transaction receipt not found"),
                         "noreceipt")
        /\ UNCHANGED <<ledger, height>>
     \/ /\ AttemptFailed(r, PlainError("timeout"), "timeout")
        /\ UNCHANGED <<ledger, height>>
  /\ UNCHANGED <<req, arrived, idempotency, receipts, rid, resp>>
  /\ UNCHANGED classVars
  /\ lib' = lib
  /\ auditEvents' = auditEvents

\* ------------------------------------------------------------ finalizing
\* an update that sets the status and leaves the transaction fields empty
UpdateMinedStatusOnly(r) ==
  /\ pc[r] = "updateMined"
  /\ receipts' = [receipts EXCEPT ![rid[r]] = [@ EXCEPT !.status = "MINED"]]
  /\ Reply(r, [status |-> 201, code |-> "OK", receiptId |-> rid[r],
               txHash |-> txOutcome[r].txHash])
  /\ UNCHANGED <<req, arrived, idempotency, rid, attempt, outcomes, delays, txOutcome,
                 error, ledger, height, faults>>
  /\ UNCHANGED classVars
  /\ lib' = lib
  /\ auditEvents' = auditEvents

\* prisma.receipt.update to MINED, then the 201 response
UpdateMined(r) ==
  /\ pc[r] = "updateMined"
  /\ \/ /\ receipts' = [receipts EXCEPT ![rid[r]] =
               [@ EXCEPT !.status = "MINED", !.txHash = txOutcome[r].txHash,
                         !.blockNumber = txOutcome[r].blockNumber,
                         !.onchainHash = txOutcome[r].onchainHash]]
        /\ Reply(r, [status |-> 201, code |-> "OK", receiptId |-> rid[r],
                     txHash |-> txOutcome[r].txHash])
        /\ error' = error
        /\ NoFault
     \/ \* the update fails: the handler's catch block takes over
        /\ Fault
        /\ error' = [error EXCEPT ![r] = PlainError("store")]
        /\ pc' = [pc EXCEPT ![r] = "updateFailed"]
        /\ UNCHANGED <<receipts, resp>>
  /\ UNCHANGED <<req, arrived, idempotency, rid, attempt, outcomes, delays, txOutcome,
                 ledger, height>>
  /\ UNCHANGED classVars
  /\ lib' = lib
  /\ auditEvents' = auditEvents

\* the handler's catch block: prisma.receipt.update to FAILED, then rethrow
UpdateFailed(r) ==
  /\ pc[r] = "updateFailed"
  /\ \/ /\ receipts' = [receipts EXCEPT ![rid[r]] =
               [@ EXCEPT !.status = "FAILED", !.errorCode = failureCode(error[r]),
                         !.errorMessage = error[r].message]]
        /\ Reply(r, ErrorReply(handlerThrows(error[r], r), 500))
        /\ NoFault
     \/ \* the update fails too: its error leaves the handler instead
        /\ Fault
        /\ Reply(r, ErrorReply(handlerThrows(PlainError("store"), r), 500))
        /\ receipts' = receipts
  /\ UNCHANGED <<req, arrived, idempotency, rid, attempt, outcomes, delays, txOutcome,
                 error, ledger, height>>
  /\ UNCHANGED classVars
  /\ lib' = lib
  /\ auditEvents' = auditEvents

\* one step of request r's processing
Step(r) ==
  \/ Submit(r)
  \/ IdempotencyMiddleware(r)
  \/ createAuditEvent(r)
  \/ CreateReceipt(r)
  \/ PrepareTransaction(r)
  \/ SendTx(r)
  \/ WaitTx(r)
  \/ UpdateMined(r)
  \/ UpdateFailed(r)

\* the service: requests handled concurrently, interleaved at their awaits
Next == \E r \in Reqs : Step(r)

Spec == Init /\ [][Next]_vars

\* one request handled alone
NextOne == Step(1)

SpecOne == Init /\ [][NextOne]_vars

\* ------------------------------------------------ the receipts module's API
\* updateReceiptStatus(adapterTxId, status, errorCode?, errorMessage?): an
\* unconditional prisma.receipt.update; an omitted (undefined) field is left
\* as it is
updateReceiptStatus(adapterTxId, status, errorCode, errorMessage) ==
  /\ adapterTxId \in DOMAIN receipts
  /\ \/ /\ NoFault
        /\ receipts' = [receipts EXCEPT ![adapterTxId] =
             [@ EXCEPT !.status = status,
                       !.errorCode = IF errorCode = "undefined" THEN @ ELSE errorCode,
                       !.errorMessage = IF errorMessage = "undefined" THEN @
                                        ELSE errorMessage]]
     \/ \* the update fails: DATABASE_ERROR, nothing written
        /\ Fault
        /\ receipts' = receipts
  /\ UNCHANGED <<pc, req, arrived, idempotency, rid, attempt, outcomes, delays,
                 txOutcome, error, ledger, height, resp>>
  /\ UNCHANGED classVars
  /\ lib' = lib
  /\ auditEvents' = auditEvents

Statuses == {"PENDING", "MINED", "FAILED"}

\* one request handled alone, with the receipts module's update callable
NextApi ==
  \/ NextOne
  \/ \E id \in DOMAIN receipts, st \in Statuses,
        ec \in {"undefined", "TX_REVERTED"} :
       updateReceiptStatus(id, st, ec, IF ec = "undefined" THEN "undefined" ELSE "failed")

SpecApi == Init /\ [][NextApi]_vars

\* ================================================================ claims
\* the transactions of request r the ledger accepted
Accepted(r) == {n \in 1..maxRetries : ledger[<<r, n>>] # "none"}
\* those of them that were not rejected by the ledger's own logic
Effective(r) == {n \in 1..maxRetries : ledger[<<r, n>>] \in {"pending", "mined"}}
\* outcomes of an attempt that the executor treats as transient
Transient == {"neterr", "timeout", "noreceipt"}
InHandler(r) == pc[r] \in {"handler", "audited", "resolving", "created", "send", "wait", "updateMined",
                           "updateFailed"}

\* C1: when a request has completed with a receipt and the same request
\* (same key, body, org, route) is submitted again afterwards and answered,
\* the two together caused exactly one ledger submission and the second
\* caller is answered with the first one's receipt.
C1_ReplayExecutesOnce ==
  \A r1, r2 \in Reqs :
    ( /\ r1 \in arrived[r2]
      /\ req[r2] = req[r1]
      /\ resp[r1].status = 201
      /\ pc[r2] = "done"
      /\ resp[r2].status \in {200, 201} )
    => /\ Cardinality(Accepted(r1)) + Cardinality(Accepted(r2)) = 1
       /\ resp[r2].receiptId = resp[r1].receiptId

\* C2: two concurrent first-time requests with the same key and identical
\* bodies never both proceed: at most one of them creates a receipt.
C2_OneWinner ==
  \A r1, r2 \in Reqs :
    ( /\ r1 # r2
      /\ req[r1] # NoReq
      /\ req[r2] = req[r1]
      /\ r1 \notin arrived[r2]
      /\ r2 \notin arrived[r1] )
    => ~(rid[r1] # 0 /\ rid[r2] # 0)

\* C3: after a request with key K was accepted, a later request presenting K
\* with a different body never gets past the guard: it runs no handler,
\* creates no receipt and submits nothing to the ledger.
C3_ConflictOnChangedBody ==
  \A r1, r2 \in Reqs :
    ( /\ r1 \in arrived[r2]
      /\ resp[r1].status = 201
      /\ req[r2].key = req[r1].key
      /\ req[r2].body # req[r1].body )
    => /\ ~InHandler(r2)
       /\ rid[r2] = 0
       /\ Accepted(r2) = {}

\* C4: across all attempts of one sendTransaction call at most one
\* transaction is accepted by the ledger, also when the confirmation wait
\* fails or times out after an accepted submission.
C4_AtMostOneAccepted ==
  \A r \in Reqs : Cardinality(Effective(r)) <= 1

\* C5: a receipt that is MINED or FAILED keeps its status under every
\* operation on the receipt store.
C5_TerminalStatus ==
  [][\A i \in DOMAIN receipts :
       receipts[i].status \in {"MINED", "FAILED"}
         => receipts'[i].status = receipts[i].status]_vars

\* C6: whenever a request is at, or past, a ledger submission attempt, the
\* receipt it created is in the store, and it is PENDING for as long as the
\* request is submitting or waiting for confirmation.
C6_PendingBeforeSubmit ==
  \A r \in Reqs :
    (pc[r] \in {"send", "wait"} \/ outcomes[r] # <<>> \/ Accepted(r) # {})
    => /\ rid[r] \in DOMAIN receipts
       /\ pc[r] \in {"send", "wait"} => receipts[rid[r]].status = "PENDING"

C6_Witness ==
  \E r \in Reqs :
    /\ pc[r] = "wait"
    /\ ledger[<<r, 1>>] = "pending"
    /\ rid[r] \in DOMAIN receipts
    /\ receipts[rid[r]].status = "PENDING"

\* C7: no response is returned for a request whose receipt was created while
\* that receipt is still PENDING.
C7_OutcomeBeforeResponse ==
  \A r \in Reqs :
    (pc[r] = "done" /\ rid[r] # 0) => receipts[rid[r]].status \in {"MINED", "FAILED"}

\* C8: when the first attempt's confirmed receipt has revert status,
\* sendTransaction makes no further attempt and has failed with TX_REVERTED.
C8_RevertNotRetried ==
  \A r \in Reqs :
    (outcomes[r] # <<>> /\ outcomes[r][1] = "revert")
    => /\ attempt[r] = 1
       /\ Len(outcomes[r]) = 1
       /\ txOutcome[r].state = "threw"
       /\ txOutcome[r].code = "TX_REVERTED"

\* C9: when the first two attempts fail transiently, sendTransaction goes on
\* to a third attempt, and when that one succeeds it returns the third
\* transaction's hash, block number and content hash after exactly 3 attempts.
C9_ThirdAttemptSucceeds ==
  \A r \in Reqs :
    ( /\ Len(outcomes[r]) >= 2
      /\ outcomes[r][1] \in Transient
      /\ outcomes[r][2] \in Transient )
    => /\ Len(outcomes[r]) = 2 =>
            /\ txOutcome[r].state = "none"
            /\ pc[r] \in {"send", "wait"}
            /\ attempt[r] = 3
       /\ (Len(outcomes[r]) = 3 /\ outcomes[r][3] = "ok") =>
            /\ attempt[r] = 3
            /\ txOutcome[r].state = "returned"
            /\ txOutcome[r].txHash = <<r, 3>>
            /\ ledger[<<r, 3>>] = "mined"
            /\ txOutcome[r].blockNumber \in 1..height
            /\ \E g \in GasUsed :
                 txOutcome[r].onchainHash =
                   generateOnchainHash(<<r, 3>>, txOutcome[r].blockNumber, g)

C9_Witness ==
  \E r \in Reqs :
    /\ Len(outcomes[r]) = 3
    /\ outcomes[r][1] \in Transient
    /\ outcomes[r][2] \in Transient
    /\ outcomes[r][3] = "ok"
    /\ txOutcome[r].state = "returned"

\* C10: every failure of sendTransaction carries LEDGER_UNAVAILABLE (the
\* code's CHAIN_UNAVAILABLE), TX_REVERTED or TX_TIMEOUT; TX_REVERTED is
\* reported only when the ledger reported a revert, so a run of transient
\* failures ends in TX_TIMEOUT or LEDGER_UNAVAILABLE.
C10_FailureCodes ==
  \A r \in Reqs :
    txOutcome[r].state = "threw"
    => /\ txOutcome[r].code \in {"LEDGER_UNAVAILABLE", "CHAIN_UNAVAILABLE",
                                 "TX_REVERTED", "TX_TIMEOUT"}
       /\ txOutcome[r].code = "TX_REVERTED"
            => outcomes[r][Len(outcomes[r])] = "revert"
       /\ (\A i \in DOMAIN outcomes[r] : outcomes[r][i] \in Transient)
            => txOutcome[r].code \in {"LEDGER_UNAVAILABLE", "CHAIN_UNAVAILABLE",
                                      "TX_TIMEOUT"}

\* C11: a receipt is FAILED only if no transaction submitted for it was mined
\* successfully on the ledger, also when the store write that records MINED
\* fails after the ledger call succeeded.
C11_FailedOnlyIfNotMined ==
  \A r \in Reqs :
    (rid[r] \in DOMAIN receipts /\ receipts[rid[r]].status = "FAILED")
    => \A n \in 1..maxRetries : ledger[<<r, n>>] # "mined"

\* --------------------------------------------- the idempotency module's API
\* the values storeIdempotency is called with: the tuple of a request as the
\* routes see it, and tuples that differ from it in one field
Methods == {"POST", "PUT"}
StoredPaths == {routerPath("RETIRE"), routerPath("ANCHOR")}
StoredHashes == {generateBodyHash(requestBody(b)) : b \in {x \in Bodies : x.kind = "RETIRE"}}
StoredOrgs == {"ORG001", "ORG002"}
\* receipt ids as callers pass them: 0 is the empty string, which the guard
\* reads as no receipt bound; an id with no row in the receipt table is a
\* receipt that cannot be found
StoredReceiptIds == 0..NumReqs

\* storeIdempotency(method, path, bodyHash, orgId, idempotencyKey, receiptId):
\* prisma.idempotency.create; the key is the table's primary key, so a second
\* create for a stored key fails (DATABASE_ERROR) and writes nothing
storeIdempotency(method, path, bodyHash, orgId, idempotencyKey, receiptId) ==
  /\ IF idempotency[idempotencyKey] = NoRecord
       THEN idempotency' = [idempotency EXCEPT ![idempotencyKey] =
              [method |-> method, path |-> path, bodyHash |-> bodyHash,
               orgId |-> orgId, receiptId |-> receiptId]]
       ELSE idempotency' = idempotency
  /\ UNCHANGED <<pc, req, arrived, receipts, rid, attempt, outcomes, delays,
                 txOutcome, error, ledger, height, resp, faults>>
  /\ UNCHANGED classVars
  /\ lib' = lib
  /\ auditEvents' = auditEvents

\* the module's export, called once on an empty table
StoreCall ==
  /\ idempotency = [k \in Keys |-> NoRecord]
  /\ \E m \in Methods, p \in StoredPaths, h \in StoredHashes, o \in StoredOrgs,
        k \in Keys, id \in StoredReceiptIds :
       storeIdempotency(m, p, h, o, k, id)

\* a store and a ledger that do not fail: the environment injects nothing
InitIdem ==
  /\ pc = [r \in Reqs |-> "idle"]
  /\ req = [r \in Reqs |-> NoReq]
  /\ arrived = [r \in Reqs |-> {}]
  /\ idempotency = [k \in Keys |-> NoRecord]
  /\ receipts = <<>>
  /\ rid = [r \in Reqs |-> 0]
  /\ attempt = [r \in Reqs |-> 0]
  /\ outcomes = [r \in Reqs |-> <<>>]
  /\ delays = [r \in Reqs |-> <<>>]
  /\ txOutcome = [r \in Reqs |-> NoOutcome]
  /\ error = [r \in Reqs |-> NoError]
  /\ ledger = [t \in TxIds |-> "none"]
  /\ height = 0
  /\ resp = [r \in Reqs |-> NoResp]
  /\ faults = MaxFaults
  /\ classMap = {}
  /\ resolving = [c \in Reqs |-> NoTriple]
  /\ resolved = {}
  /\ lib = <<>>
  /\ auditEvents = [r \in Reqs |-> "none"]
  /\ classIdOf = [r \in Reqs |-> <<>>]
  /\ tokenMap = {}
  /\ creating = [c \in Reqs |-> NoCreate]

\* two requests and one call of storeIdempotency
NextIdem ==
  \/ Step(1)
  \/ Step(2)
  \/ StoreCall

SpecIdem == InitIdem /\ [][NextIdem]_vars

\* the row stored for request r's key answers r's own (method, path, bodyHash, org)
RowMatches(r) ==
  LET row == idempotency[req[r].key] IN
  /\ row # NoRecord
  /\ row.method = "POST"
  /\ row.path = routerPath(req[r].body.kind)
  /\ row.bodyHash = generateBodyHash(requestBody(req[r].body))
  /\ row.orgId = req[r].org

\* C12: a request whose key is stored with a matching tuple, while no receipt
\* is bound to the key or the bound receipt is not in the store, is answered
\* "retry later": it does not go on to the handler, so no receipt and no
\* ledger submission come from it.
C12_RetryLaterNotExecuted ==
  [][\A r \in Reqs :
       ( /\ pc[r] = "preHandler"
         /\ RowMatches(r)
         /\ \/ idempotency[req[r].key].receiptId = 0
            \/ idempotency[req[r].key].receiptId \notin DOMAIN receipts )
       => pc'[r] # "handler"]_vars

\* C13: once a first-seen request with key K has been executed and answered
\* with its finalized receipt, the idempotency table binds K to the request's
\* (method, path, bodyHash, org) and to that receipt's id.
C13_BoundAfterFinalized ==
  \A r \in Reqs :
    (pc[r] = "done" /\ resp[r].status = 201 /\ rid[r] # 0)
    => idempotency[req[r].key] =
         [method |-> "POST", path |-> routerPath(req[r].body.kind),
          bodyHash |-> generateBodyHash(requestBody(req[r].body)), orgId |-> req[r].org,
          receiptId |-> rid[r]]

\* request r's tuple differs from the row stored for its key in at least one
\* of method, path, bodyHash and org
RowDiffers(r) ==
  LET row == idempotency[req[r].key] IN
  \/ row.method # "POST"
  \/ row.path # routerPath(req[r].body.kind)
  \/ row.bodyHash # generateBodyHash(requestBody(req[r].body))
  \/ row.orgId # req[r].org

\* C14: the guard decides by the stored row alone. With no row for the key
\* the request is first-seen and goes on to the handler; with a row equal in
\* method, path, bodyHash and org it is a replay carrying the bound receipt
\* id, and is answered 200 with that receipt when the receipt is in the
\* store; with a row that differs in any one of the four it is answered 409
\* with the conflict error, and is neither first-seen nor a replay.
C14_GuardDecision ==
  [][\A r \in Reqs :
       (pc[r] = "preHandler" /\ pc'[r] # "preHandler") =>
         LET row == idempotency[req[r].key]
             check == checkIdempotency(idempotency, "POST", routerPath(req[r].body.kind),
                                       generateBodyHash(requestBody(req[r].body)), req[r].org,
                                       req[r].key)
         IN
         /\ row = NoRecord =>
              /\ check.kind = "first" /\ ~check.isReplay
              /\ pc'[r] = "handler"
         /\ (row # NoRecord /\ ~RowDiffers(r)) =>
              /\ check.kind = "replay" /\ check.isReplay
              /\ check.existingReceiptId = row.receiptId
              /\ row.receiptId \in DOMAIN receipts =>
                   /\ pc'[r] = "done"
                   /\ resp'[r].status = 200
                   /\ resp'[r].receiptId = row.receiptId
         /\ (row # NoRecord /\ RowDiffers(r)) =>
              /\ check.kind = "conflict" /\ ~check.isReplay
              /\ pc'[r] = "done"
              /\ resp'[r].status = 409
              /\ resp'[r].code = "IDEMPOTENT_REPLAY"
              /\ resp'[r].receiptId = 0]_vars

\* a request answered 409 whose stored row differs from it in the
\* organisation only
C14_Witness ==
  \E r \in Reqs :
    LET row == idempotency[req[r].key] IN
    /\ pc[r] = "done"
    /\ resp[r].status = 409
    /\ rid[r] = 0
    /\ row.method = "POST"
    /\ row.path = routerPath(req[r].body.kind)
    /\ row.bodyHash = generateBodyHash(requestBody(req[r].body))
    /\ row.orgId # req[r].org

\* ------------------------------------------------- crash and receipt lookup
\* a lookup that reports a receipt without a terminal update as failed
getReceiptInfersOutcome(table, adapterTxId) ==
  IF table[adapterTxId].status = "PENDING"
    THEN [table[adapterTxId] EXCEPT !.status = "FAILED"]
    ELSE table[adapterTxId]

\* getReceipt(adapterTxId): the row as prisma.receipt.findUnique returns it
getReceipt(table, adapterTxId) == table[adapterTxId]

\* GET /v1/receipts/:adapterTxId, a request the idempotency guard lets through
\* unexamined: the stored row, 404 when there is none, 500 when the read fails
GetReceipt(r, adapterTxId) ==
  /\ pc[r] = "idle"
  /\ \A q \in Reqs : q < r => pc[q] # "idle"
  /\ \E o \in Orgs :
       req' = [req EXCEPT ![r] =
                 [key |-> "none", body |-> [kind |-> "GET", classId |-> "none"],
                  org |-> o]]
  /\ arrived' = [arrived EXCEPT ![r] = {q \in Reqs : pc[q] = "done"}]
  /\ \/ /\ NoFault
        /\ IF adapterTxId \in DOMAIN receipts
             THEN Reply(r, [status |-> 200, code |-> "OK", receiptId |-> adapterTxId,
                            txHash |-> getReceipt(receipts, adapterTxId).txHash,
                            receipt |-> getReceipt(receipts, adapterTxId)])
             ELSE Reply(r, [ErrorReply(AppError("BAD_REQUEST", "Receipt not found"), 404)
                              EXCEPT !.receiptId = adapterTxId])
     \/ /\ Fault
        /\ Reply(r, [ErrorReply(AppError("DATABASE_ERROR", "Failed to get receipt"), 500)
                       EXCEPT !.receiptId = adapterTxId])
  /\ UNCHANGED <<idempotency, receipts, rid, attempt, outcomes, delays, txOutcome,
                 error, ledger, height>>
  /\ UNCHANGED classVars
  /\ lib' = lib
  /\ auditEvents' = auditEvents

\* the requests the process is working on
InFlight == {r \in Reqs : pc[r] \notin {"idle", "done", "crashed"}}

\* the process dies and is started again: the requests it was working on are
\* gone, the store and the ledger keep what they hold, and start() resumes
\* nothing
Crash ==
  /\ InFlight # {}
  /\ pc' = [r \in Reqs |-> IF r \in InFlight THEN "crashed" ELSE pc[r]]
  /\ UNCHANGED <<req, arrived, idempotency, receipts, rid, attempt, outcomes, delays,
                 txOutcome, error, ledger, height, resp, faults>>
  /\ UNCHANGED classVars
  /\ lib' = lib
  /\ auditEvents' = auditEvents

\* one writing request, lookups after it, and crashes of the process
NextCrash ==
  \/ Step(1)
  \/ Crash
  \/ \E r \in Reqs \ {1}, id \in Reqs : GetReceipt(r, id)

SpecCrash == Init /\ [][NextCrash]_vars

\* the receipt of request r was left PENDING by a crash
Orphaned(r) ==
  /\ pc[r] = "crashed"
  /\ rid[r] \in DOMAIN receipts
  /\ receipts[rid[r]].status = "PENDING"

\* C15: a receipt left PENDING by a crash stays PENDING, a lookup of it
\* returns it with status PENDING, and no further transaction is submitted to
\* the ledger for it.
C15_PendingReportedAsPending ==
  [][\A r \in Reqs :
       Orphaned(r) =>
         /\ receipts'[rid[r]].status = "PENDING"
         /\ \A n \in 1..maxRetries : ledger'[<<r, n>>] = ledger[<<r, n>>]
         /\ \A q \in Reqs :
              ( /\ pc[q] = "idle"
                /\ pc'[q] = "done"
                /\ resp'[q].receiptId = rid[r]
                /\ faults' = faults )
              => /\ resp'[q].status = 200
                 /\ resp'[q].receipt.status = "PENDING"
                 /\ resp'[q].receipt = receipts[rid[r]]]_vars

\* a crash between the ledger submission and the local update, and a lookup
\* of the receipt afterwards
C15_Witness ==
  \E r, q \in Reqs :
    /\ Orphaned(r)
    /\ ledger[<<r, 1>>] = "pending"
    /\ pc[q] = "done"
    /\ req[q].body.kind = "GET"
    /\ resp[q].status = 200
    /\ resp[q].receiptId = rid[r]

\* ------------------------------------------------------------- progress
\* one request handled by a process that does not crash: every call the
\* handler awaits settles (with a value or with an error), and the event loop
\* then runs the handler's next step
SpecLive == Init /\ [][NextOne]_vars /\ WF_vars(NextOne)

\* C16: once a handler has created its PENDING receipt, and the process
\* does not crash and every store and ledger call settles, the receipt
\* eventually is MINED or FAILED.
C16_EventuallyTerminal ==
  \A r \in Reqs :
    (rid[r] \in DOMAIN receipts)
      ~> (rid[r] \in DOMAIN receipts /\ receipts[rid[r]].status \in {"MINED", "FAILED"})

\* request r's handler is suspended in `await signer.sendTransaction(...)`:
\* on the first attempt nothing (no backoff) lies between entering the loop
\* and that call
InSigner(r) == pc[r] = "send" /\ attempt[r] = 1

\* C17: submissions under the one shared signer are serialized: two handler
\* invocations are never inside signer.sendTransaction at the same time.
C17_SignerSerialized ==
  \A r1, r2 \in Reqs : (InSigner(r1) /\ InSigner(r2)) => r1 = r2

\* C18: while a receipt is MINED its transaction hash, block number and
\* content hash stay what they are under every operation on the receipt
\* store.
C18_MinedFieldsImmutable ==
  [][\A i \in DOMAIN receipts :
       receipts[i].status = "MINED"
       => /\ receipts'[i].txHash = receipts[i].txHash
          /\ receipts'[i].blockNumber = receipts[i].blockNumber
          /\ receipts'[i].onchainHash = receipts[i].onchainHash]_vars

\* the receipt carries a failure code and a failure message
HasFailure(rcpt) == rcpt.errorCode # "none" /\ rcpt.errorMessage # "none"
\* the receipt carries neither
NoFailure(rcpt) == rcpt.errorCode = "none" /\ rcpt.errorMessage = "none"

\* C19: a receipt carries a failure code and message exactly when it is
\* FAILED: a FAILED receipt has both, a PENDING or MINED receipt has neither,
\* and a request that failed after it created its receipt leaves that receipt
\* FAILED with both set.
C19_FailureFieldsIffFailed ==
  /\ \A i \in DOMAIN receipts :
       IF receipts[i].status = "FAILED" THEN HasFailure(receipts[i])
                                        ELSE NoFailure(receipts[i])
  /\ \A r \in Reqs :
       (pc[r] = "done" /\ rid[r] \in DOMAIN receipts /\ resp[r].status >= 400)
       => /\ receipts[rid[r]].status = "FAILED"
          /\ HasFailure(receipts[rid[r]])

\* ----------------------------------------------------- class resolution
\* class identifiers are tuples: a literal such as <<"0x1001">>, or the tag of
\* a hash

\* the rows of the seed script (const classMaps)
classMaps ==
  { [projectId |-> "PRJ001", vintageStart |-> "2020-01-01",
     vintageEnd |-> "2020-12-31", classId |-> <<"0x1001">>],
    [projectId |-> "PRJ002", vintageStart |-> "2021-01-01",
     vintageEnd |-> "2021-12-31", classId |-> <<"0x1002">>],
    [projectId |-> "PRJ003", vintageStart |-> "2022-01-01",
     vintageEnd |-> "2022-12-31", classId |-> <<"0x1003">>] }

\* the (project, window start, window end) triples callers ask for: the
\* seeded ones and one the seed script does not know
ClassTriples ==
  { [projectId |-> m.projectId, vintageStart |-> m.vintageStart,
     vintageEnd |-> m.vintageEnd] : m \in classMaps }
  \cup { [projectId |-> "PRJ004", vintageStart |-> "2023-01-01",
          vintageEnd |-> "2023-12-31"] }

\* ---- numbers as the class id derivation handles them: a hash is its 64 hex
\* digits, most significant first; a BigInt is its digits without leading
\* zeros (zero is the empty sequence)
hashDigits == 64
shiftBits == 128
classIdDigits == 32

ProjectIds == {"PRJ001", "PRJ002", "PRJ003", "PRJ004"}
VintageStarts == {"2020-01-01", "2021-01-01", "2022-01-01", "2023-01-01"}
VintageEnds == {"2020-12-31", "2021-12-31", "2022-12-31", "2023-12-31"}

IndexOf(str) ==
  CASE str \in {"PRJ001", "2020-01-01", "2020-12-31"} -> 0
    [] str \in {"PRJ002", "2021-01-01", "2021-12-31"} -> 1
    [] str \in {"PRJ003", "2022-01-01", "2022-12-31"} -> 2
    [] OTHER -> 3

\* ethers.keccak256(ethers.toUtf8Bytes(data)) for data =
\* `${projectId}|${vintageStart.toISOString()}|${vintageEnd.toISOString()}`:
\* a stand-in that gives every data string of the model a digest of its own
\* that differs from the others within its upper 32 digits, with runs of
\* leading zero digits of every length up to 32
keccak256(projectId, vintageStart, vintageEnd) ==
  LET n == 16 * IndexOf(projectId) + 4 * IndexOf(vintageStart) + IndexOf(vintageEnd)
      zeros == n % 33
  IN [i \in 1..hashDigits |->
        IF i <= zeros THEN 0
        ELSE IF i = zeros + 1 THEN 1 + (n \div 33)
        ELSE 3 + (n % 13)]

\* BigInt(hash): the number, i.e. the digits without leading zeros
BigInt(hex) ==
  LET nonzero == {i \in DOMAIN hex : hex[i] # 0} IN
  IF nonzero = {} THEN <<>>
  ELSE SubSeq(hex, CHOOSE i \in nonzero : \A j \in nonzero : i <= j, Len(hex))

\* n >> BigInt(bits), for a whole number of hex digits
ShiftRight(n, bits) ==
  IF Len(n) <= bits \div 4 THEN <<>> ELSE SubSeq(n, 1, Len(n) - bits \div 4)

\* n.toString(16)
toString16(n) == IF n = <<>> THEN <<0>> ELSE n

\* str.padStart(targetLength, fill)
padStart(str, targetLength, fill) ==
  IF Len(str) >= targetLength THEN str
  ELSE [i \in 1..(targetLength - Len(str)) |-> fill] \o str

\* a derivation that forgets the padding
generateClassIdUnpadded(projectId, vintageStart, vintageEnd) ==
  <<"0x">> \o toString16(ShiftRight(BigInt(keccak256(projectId, vintageStart,
                                                      vintageEnd)), shiftBits))

\* generateClassId: `0x` and the upper 128 bits of the hash as 32 hex digits
generateClassId(projectId, vintageStart, vintageEnd) ==
  <<"0x">> \o padStart(toString16(ShiftRight(BigInt(keccak256(projectId, vintageStart,
                                                               vintageEnd)), shiftBits)),
                       classIdDigits, 0)

\* the rows prisma.classMap.findFirst can return for a triple
MatchingRows(t) ==
  {m \in classMap : /\ m.projectId = t.projectId
                    /\ m.vintageStart = t.vintageStart
                    /\ m.vintageEnd = t.vintageEnd}

Returned(t, classId) ==
  [projectId |-> t.projectId, vintageStart |-> t.vintageStart,
   vintageEnd |-> t.vintageEnd, classId |-> classId]

pipelineVars == <<pc, req, arrived, idempotency, receipts, rid, attempt, outcomes,
                  delays, txOutcome, error, ledger, height, resp, faults, auditEvents>>

\* resolveClassId up to its first await: findFirst by the triple; a row that
\* is found is the answer (findFirst has no orderBy: any matching row)
ResolveFind(c, t) ==
  /\ resolving[c] = NoTriple
  /\ IF MatchingRows(t) # {}
       THEN /\ \E m \in MatchingRows(t) :
                 resolved' = resolved \cup {Returned(t, m.classId)}
            /\ resolving' = resolving
       ELSE /\ resolving' = [resolving EXCEPT ![c] = t]
            /\ resolved' = resolved
  /\ classMap' = classMap
  /\ classIdOf' = classIdOf
  /\ UNCHANGED tokenVars
  /\ UNCHANGED pipelineVars
  /\ lib' = lib

\* resolveClassId after it found no row: generateClassId, then
\* prisma.classMap.create, which fails (DATABASE_ERROR, nothing returned) when
\* a row with that classId exists (unique index) or the store fails
ResolveCreate(c) ==
  /\ resolving[c] # NoTriple
  /\ LET t == resolving[c]
         classId == generateClassId(t.projectId, t.vintageStart, t.vintageEnd)
     IN
     \/ /\ \A m \in classMap : m.classId # classId
        /\ classMap' = classMap \cup {Returned(t, classId)}
        /\ resolved' = resolved \cup {Returned(t, classId)}
     \/ UNCHANGED <<classMap, resolved>>
  /\ resolving' = [resolving EXCEPT ![c] = NoTriple]
  /\ classIdOf' = classIdOf
  /\ UNCHANGED tokenVars
  /\ UNCHANGED pipelineVars
  /\ lib' = lib

\* the seed script's loop: upsert by classId with an empty update, so a row is
\* created for each seed classId that is not in the table
Seed ==
  /\ classMap' = classMap \cup
       {m \in classMaps : \A x \in classMap : x.classId # m.classId}
  /\ classMap' # classMap
  /\ UNCHANGED <<resolving, resolved>>
  /\ classIdOf' = classIdOf
  /\ UNCHANGED tokenVars
  /\ UNCHANGED pipelineVars
  /\ lib' = lib

\* concurrent calls of resolveClassId on a database that may be seeded
NextClass ==
  \/ \E c \in Reqs, t \in ClassTriples : ResolveFind(c, t)
  \/ \E c \in Reqs : ResolveCreate(c)
  \/ Seed

SpecClass == Init /\ [][NextClass]_vars

\* C20: every call of resolveClassId for a (project, window start, window
\* end) returns generateClassId of that triple, so all calls for one triple
\* return the same identifier, computed or read from a stored row.
C20_ClassIdStable ==
  /\ \A x \in resolved :
       x.classId = generateClassId(x.projectId, x.vintageStart, x.vintageEnd)
  /\ \A x, y \in resolved :
       ( /\ x.projectId = y.projectId
         /\ x.vintageStart = y.vintageStart
         /\ x.vintageEnd = y.vintageEnd ) => x.classId = y.classId

\* the class identifiers a caller can name: the seeded and the derived ones
ClassIds ==
  {m.classId : m \in classMaps}
  \cup {generateClassId(t.projectId, t.vintageStart, t.vintageEnd) : t \in ClassTriples}

\* deleteClassMapping(classId): prisma.classMap.delete by the unique classId;
\* with no such row the delete throws (DATABASE_ERROR) and removes nothing
deleteClassMapping(classId) ==
  /\ classMap' = {m \in classMap : m.classId # classId}
  /\ UNCHANGED <<resolving, resolved>>
  /\ classIdOf' = classIdOf
  /\ UNCHANGED tokenVars
  /\ UNCHANGED pipelineVars
  /\ lib' = lib

\* class resolution with the classes module's delete callable
NextClassApi ==
  \/ NextClass
  \/ \E classId \in ClassIds : deleteClassMapping(classId)

SpecClassApi == Init /\ [][NextClassApi]_vars

\* C21: rows of the class mapping table are only ever added: every row that
\* is in the table stays in it, unchanged, under every operation.
C21_ClassMapAppendOnly ==
  [][classMap \subseteq classMap']_vars

\* ------------------------------------------------- pure library functions
\* lib keeps the last two calls
Record(call) == lib' = IF Len(lib) < 2 THEN Append(lib, call) ELSE <<lib[2], call>>

\* a call of generateClassId
CallGenerateClassId ==
  /\ \E p \in ProjectIds, s \in VintageStarts, e \in VintageEnds :
       Record([fn |-> "generateClassId", args |-> <<p, s, e>>,
               result |-> generateClassId(p, s, e)])
  /\ UNCHANGED pipelineVars
  /\ UNCHANGED classVars

SpecGenerateClassId == Init /\ [][CallGenerateClassId]_vars

MaxHashes == 3

\* hashes are tuples: an evidence hash is a one-element tuple, ethers.ZeroHash
\* likewise, and a computed hash is the tag of the bytes that were hashed
EvidenceHashes == {<<"0xabc123">>, <<"0xdef456">>}
ZeroHash == <<"0x00">>

\* ethers.keccak256(bytes), the bytes given as the sequence of the hashes
\* that were concatenated: injective
keccak256Bytes(parts) == <<"keccak256", parts>>

\* the evidence lists of up to n hashes
RECURSIVE HashLists(_)
HashLists(n) ==
  IF n = 0 THEN {<<>>}
  ELSE HashLists(n - 1)
       \cup {Append(l, h) : l \in {x \in HashLists(n - 1) : Len(x) = n - 1},
                            h \in EvidenceHashes}

\* one pass of the while loop: adjacent pairs left to right, the last element
\* paired with itself when the count is odd
NextLevel(currentLevel) ==
  [k \in 1..((Len(currentLevel) + 1) \div 2) |->
     LET left == currentLevel[2 * k - 1]
         right == IF 2 * k <= Len(currentLevel) THEN currentLevel[2 * k] ELSE left
     IN keccak256Bytes(<<left, right>>)]

\* the while loop
RECURSIVE ReduceLevels(_)
ReduceLevels(currentLevel) ==
  IF Len(currentLevel) > 1 THEN ReduceLevels(NextLevel(currentLevel))
  ELSE currentLevel[1]

\* a root function that hashes a lone element like any other leaf
createMerkleRootHashesSingle(evidenceHashes) ==
  IF Len(evidenceHashes) = 0 THEN ZeroHash
  ELSE ReduceLevels([i \in 1..Len(evidenceHashes) |->
                       keccak256Bytes(<<evidenceHashes[i]>>)])

\* createMerkleRoot: the zero hash, the lone element as it is, or the loop
\* over the level of the re-hashed elements
createMerkleRoot(evidenceHashes) ==
  IF Len(evidenceHashes) = 0 THEN ZeroHash
  ELSE IF Len(evidenceHashes) = 1 THEN evidenceHashes[1]
  ELSE ReduceLevels([i \in 1..Len(evidenceHashes) |->
                       keccak256Bytes(<<evidenceHashes[i]>>)])

\* a call of createMerkleRoot
CallCreateMerkleRoot ==
  /\ \E l \in HashLists(MaxHashes) :
       Record([fn |-> "createMerkleRoot", args |-> l, result |-> createMerkleRoot(l)])
  /\ UNCHANGED pipelineVars
  /\ UNCHANGED classVars

SpecMerkle == Init /\ [][CallCreateMerkleRoot]_vars

\* C23: createMerkleRoot returns the zero hash for the empty list and the
\* element itself for a list of one, and two calls with the same list return
\* the same root.
C23_MerkleBaseCases ==
  /\ \A i \in DOMAIN lib :
       lib[i].fn = "createMerkleRoot" =>
         /\ Len(lib[i].args) = 0 => lib[i].result = ZeroHash
         /\ Len(lib[i].args) = 1 => lib[i].result = lib[i].args[1]
  /\ \A i, j \in DOMAIN lib :
       (lib[i].fn = "createMerkleRoot" /\ lib[j].fn = "createMerkleRoot"
        /\ lib[i].args = lib[j].args) => lib[i].result = lib[j].result

\* a call with the empty list followed by a call with one element
C23_Witness ==
  /\ Len(lib) = 2
  /\ lib[1].fn = "createMerkleRoot"
  /\ lib[1].args = <<>>
  /\ lib[2].fn = "createMerkleRoot"
  /\ Len(lib[2].args) = 1
  /\ lib[2].result \in EvidenceHashes

\* C24: for two or more hashes createMerkleRoot is the root of the tree whose
\* lowest level is the list of the input hashes themselves, each level being
\* reduced by hashing adjacent pairs, the last element paired with itself
\* when the count is odd.
C24_MerkleTreeOfInputs ==
  \A i \in DOMAIN lib :
    (lib[i].fn = "createMerkleRoot" /\ Len(lib[i].args) >= 2)
    => lib[i].result = ReduceLevels(lib[i].args)

\* ------------------------------------------------------ issuance validation
\* the project identifiers tried: empty, blank, plain, with a leading blank
IssuanceProjectIds == {<<>>, <<" ">>, <<"P">>, <<" ", "P">>}

\* issuance requests with every project identifier and vintage window tried
IssuanceBodies ==
  {[kind |-> "ISSUE", classId |-> "A", projectId |-> p, vintageStart |-> s,
    vintageEnd |-> e] : p \in IssuanceProjectIds, s \in VintageDates, e \in VintageDates}

\* an issuance request arrives
SubmitIssuance(r) ==
  /\ pc[r] = "idle"
  /\ \A q \in Reqs : q < r => pc[q] # "idle"
  /\ \E k \in Keys, b \in IssuanceBodies, o \in Orgs :
       req' = [req EXCEPT ![r] = [key |-> k, body |-> b, org |-> o]]
  /\ arrived' = [arrived EXCEPT ![r] = {q \in Reqs : pc[q] = "done"}]
  /\ pc' = [pc EXCEPT ![r] = "preHandler"]
  /\ UNCHANGED <<idempotency, receipts, rid, attempt, outcomes, delays, txOutcome,
                 error, ledger, height, resp, faults>>
  /\ UNCHANGED classVars
  /\ lib' = lib
  /\ auditEvents' = auditEvents

NextIssuance ==
  \/ SubmitIssuance(1)
  \/ Step(1)

SpecIssuance == Init /\ [][NextIssuance]_vars

\* the request was turned down by the validation: 400 BAD_REQUEST, no
\* receipt, nothing submitted
TurnedDown(r) ==
  /\ pc[r] = "done"
  /\ resp[r].status = 400
  /\ resp[r].code = "BAD_REQUEST"
  /\ rid[r] = 0
  /\ receipts = <<>>
  /\ Accepted(r) = {}

\* the handler has gone past the validation
PastValidation(r) == pc[r] \notin {"idle", "validation", "preHandler", "handler", "audited"}

\* the window is longer than ten years of 365 days
TooLong(body) == getTime(body.vintageEnd) - getTime(body.vintageStart) > 10 * 365

\* the window's start is not before its end
NotBefore(body) == getTime(body.vintageStart) >= getTime(body.vintageEnd)

RECURSIVE Orders(_)
Orders(fields) ==
  IF fields = {} THEN {<<>>}
  ELSE UNION {{<<f>> \o rest : rest \in Orders(fields \ {f})} : f \in fields}

\* the nested objects tried: the same two fields in both orders
MetaObjects ==
  {Object(o) : o \in Orders({<<"quantity", Atom("2")>>, <<"holder", Atom("0xh")>>})}

\* the bodies tried: three fields, one of them an object, in every order
JsonBodies ==
  {Object(o) : o \in UNION {Orders({<<"classId", Atom(c)>>, <<"quantity", Atom("1")>>,
                                    <<"meta", m>>}) :
                            c \in {"A", "B"}, m \in MetaObjects}}

\* a call of generateBodyHash
CallGenerateBodyHash ==
  /\ \E body \in JsonBodies :
       Record([fn |-> "generateBodyHash", args |-> body, result |-> generateBodyHash(body)])
  /\ UNCHANGED pipelineVars
  /\ UNCHANGED classVars

SpecBodyHash == Init /\ [][CallGenerateBodyHash]_vars

\* a JSON value without the order of its fields
RECURSIVE Unordered(_)
Unordered(value) ==
  IF value.type = "atom" THEN value
  ELSE [type |-> "object",
        fields |-> {<<value.fields[i][1], Unordered(value.fields[i][2])>> :
                      i \in 1..Len(value.fields)}]

\* C26: two bodies with the same fields and values, in whatever order the
\* fields come, get the same body hash.
C26_FieldOrderIrrelevant ==
  \A i, j \in DOMAIN lib :
    (/\ lib[i].fn = "generateBodyHash"
     /\ lib[j].fn = "generateBodyHash"
     /\ Unordered(lib[i].args) = Unordered(lib[j].args))
    => lib[i].result = lib[j].result

\* two bodies that differ in the order of their fields, at the top level and
\* inside the nested object, have been hashed
C26_Witness ==
  /\ Len(lib) = 2
  /\ lib[1].fn = "generateBodyHash"
  /\ lib[2].fn = "generateBodyHash"
  /\ ObjectKeys(lib[1].args) # ObjectKeys(lib[2].args)
  /\ ObjectKeys(FieldValue(lib[1].args, "meta")) # ObjectKeys(FieldValue(lib[2].args, "meta"))
  /\ Unordered(lib[1].args) = Unordered(lib[2].args)
  /\ lib[1].result = lib[2].result

\* ------------------------------------------------------------- audit trail
\* C27: the audit step never ends a request: whether the append succeeds or
\* fails, the request goes on to the operation handler, with no response
\* sent and the receipts, the idempotency table and the ledger as they were.
C27_AuditFailureSwallowed ==
  [][\A r \in Reqs :
       (pc[r] = "handler" /\ pc'[r] # "handler")
       => /\ pc'[r] = "audited"
          /\ auditEvents'[r] \in {"written", "failed"}
          /\ resp' = resp
          /\ receipts' = receipts
          /\ rid' = rid
          /\ idempotency' = idempotency
          /\ ledger' = ledger]_vars

\* a request whose audit append failed has been executed: its receipt is
\* MINED, its transaction is on the ledger and it was answered 201
C27_Witness ==
  /\ auditEvents[1] = "failed"
  /\ pc[1] = "done"
  /\ resp[1].status = 201
  /\ rid[1] # 0
  /\ receipts[rid[1]].status = "MINED"
  /\ Effective(1) # {}

\* ------------------------------------------------------------ token domain
\* the bodies of the token routes
TokenBodies ==
  {[kind |-> k, classId |-> "A", holder |-> "0xh2", quantity |-> 100] : k \in TokenKinds}

\* a request to a token route arrives, its bearer token carrying a role
SubmitToken(r) ==
  /\ pc[r] = "idle"
  /\ \A q \in Reqs : q < r => pc[q] # "idle"
  /\ \E k \in Keys, b \in TokenBodies, o \in Orgs, role \in Roles :
       req' = [req EXCEPT ![r] = [key |-> k, body |-> b, org |-> o, role |-> role]]
  /\ arrived' = [arrived EXCEPT ![r] = {q \in Reqs : pc[q] = "done"}]
  /\ pc' = [pc EXCEPT ![r] = "preHandler"]
  /\ UNCHANGED <<idempotency, receipts, rid, attempt, outcomes, delays, txOutcome,
                 error, ledger, height, resp, faults>>
  /\ UNCHANGED classVars
  /\ lib' = lib
  /\ auditEvents' = auditEvents

\* the handler of a token route: the role check on the request's
\* authentication context, then the operation (minting runs
\* finalizeIssuance, burning retireCredits, bridging answers at once)
TokenRoute(r) ==
  /\ pc[r] = "handler"
  /\ req[r].body.kind \in TokenKinds
  /\ LET authContext == authenticateRequest([role |-> req[r].role, orgId |-> req[r].org], r)
     IN IF authContext.role # "ADMIN"
          THEN Reply(r, [status |-> 403, code |-> "FORBIDDEN",
                         message |-> "Token operations are restricted to ADMIN role only",
                         traceId |-> NoTrace, receiptId |-> 0, txHash |-> NoTx])
        ELSE IF req[r].body.kind = "TOKEN_BRIDGE"
          THEN Reply(r, [status |-> 201, code |-> "OK", receiptId |-> 0, txHash |-> NoTx])
        ELSE pc' = [pc EXCEPT ![r] = "audited"] /\ resp' = resp
  /\ UNCHANGED <<req, arrived, idempotency, receipts, rid, attempt, outcomes, delays,
                 txOutcome, error, ledger, height, faults>>
  /\ UNCHANGED classVars
  /\ lib' = lib
  /\ auditEvents' = auditEvents

NextToken ==
  \/ SubmitToken(1)
  \/ TokenRoute(1)
  \/ Step(1)

SpecToken == Init /\ [][NextToken]_vars

\* C28: a request to a token route that got past the idempotency guard is
\* answered 403 exactly when its caller's role is not ADMIN, and a caller
\* answered 403 has caused no receipt and no ledger submission.
C28_TokenRoutesAdminOnly ==
  \A r \in Reqs :
    (req[r].body.kind \in TokenKinds /\ pc[r] \notin {"idle", "preHandler", "handler"}
     /\ resp[r].status # 500)
    => /\ req[r].role = "ADMIN" => resp[r].status # 403
       /\ req[r].role # "ADMIN" =>
            /\ pc[r] = "done"
            /\ resp[r].status = 403
            /\ rid[r] = 0
            /\ Accepted(r) = {}

\* ---------------------------------------------------------- error responses
\* C29: every error response carries a code, a message and the trace id of
\* the request it answers.
C29_ErrorEnvelope ==
  \A r \in Reqs :
    (pc[r] = "done" /\ resp[r].status >= 400)
    => /\ resp[r].code # "none"
       /\ resp[r].message # "none"
       /\ resp[r].traceId = r

\* ------------------------------------------------------------------ replay
\* the receipt the row stored for request r's key is bound to
BoundReceipt(r) == idempotency[req[r].key].receiptId

\* C30: when the key of a request is stored with a matching tuple and bound
\* to a receipt in the store, the guard answers the request 200 from that
\* receipt, whatever the receipt's status: the request ends there, with no
\* receipt of its own, and the receipts and the ledger are as they were.
C30_ReplayFromStoredReceipt ==
  [][\A r \in Reqs :
       ( /\ pc[r] = "preHandler"
         /\ pc'[r] # "preHandler"
         /\ RowMatches(r)
         /\ BoundReceipt(r) \in DOMAIN receipts )
       => /\ pc'[r] = "done"
          /\ resp'[r].status = 200
          /\ resp'[r].receiptId = BoundReceipt(r)
          /\ resp'[r].txHash = receipts[BoundReceipt(r)].txHash
          /\ rid'[r] = 0
          /\ receipts' = receipts
          /\ ledger' = ledger
          /\ idempotency' = idempotency]_vars

\* a request has been answered from a stored receipt that is FAILED, without
\* a receipt or a submission of its own
C30_Witness ==
  /\ pc[2] = "done"
  /\ resp[2].status = 200
  /\ RowMatches(2)
  /\ resp[2].receiptId = BoundReceipt(2)
  /\ receipts[BoundReceipt(2)].status = "FAILED"
  /\ rid[2] = 0
  /\ Accepted(2) = {}

\* ------------------------------------------------- sendTransaction's loop
\* request r is inside sendTransaction
InSendTransaction(r) == pc[r] \in {"send", "wait"}

\* sendTransaction has ended for request r: it returned or it threw
SendTransactionEnded(r) == txOutcome[r].state \in {"returned", "threw"}

\* what holds of sendTransaction's attempts in every state: at most maxRetries
\* of them, none after a success, and a return only with a transaction that
\* was confirmed and not reverted
AttemptsBounded(r) ==
  /\ attempt[r] <= maxRetries
  /\ Len(outcomes[r]) <= maxRetries
  /\ \A i \in 1..Len(outcomes[r]) : outcomes[r][i] = "ok" => i = Len(outcomes[r])
  /\ Cardinality(Accepted(r)) <= maxRetries
  /\ txOutcome[r].state = "returned" =>
       /\ outcomes[r][Len(outcomes[r])] = "ok"
       /\ ledger[txOutcome[r].txHash] = "mined"
  /\ txOutcome[r].state = "threw" =>
       /\ "ok" \notin {outcomes[r][i] : i \in 1..Len(outcomes[r])}
       /\ txOutcome[r].code # "OK"

C32_BackoffDelays ==
  \A r \in Reqs :
    /\ Len(delays[r]) = IF attempt[r] = 0 THEN 0 ELSE attempt[r] - 1
    /\ \A n \in 1..Len(delays[r]) : delays[r][n] = (2 ^ n) * 1000
    /\ delays[r] \in {<<>>, <<2000>>, <<2000, 4000>>}
    /\ SendTransactionEnded(r) => Len(delays[r]) = Len(outcomes[r]) - 1

\* sendTransaction has given up after its third attempt, having waited twice
C32_Witness ==
  /\ txOutcome[1].state = "threw"
  /\ delays[1] = <<2000, 4000>>
  /\ Len(outcomes[1]) = 3

\* --------------------------------------------------- retirement pre-flight
\* the quantities tried: not positive, small, and either side of the two
\* balances the pre-flight read can give
Quantities == {-1, 0, 1, 1000, 1001, 5000, 5001}

\* retirement requests with every class id, holder and quantity tried
RetireBodies ==
  {[kind |-> "RETIRE", classId |-> c, holder |-> h, quantity |-> q] :
     c \in {"A", ""}, h \in Holders, q \in Quantities}

\* a retirement request arrives
SubmitRetire(r) ==
  /\ pc[r] = "idle"
  /\ \A q \in Reqs : q < r => pc[q] # "idle"
  /\ \E k \in Keys, b \in RetireBodies, o \in Orgs :
       req' = [req EXCEPT ![r] = [key |-> k, body |-> b, org |-> o]]
  /\ arrived' = [arrived EXCEPT ![r] = {q \in Reqs : pc[q] = "done"}]
  /\ pc' = [pc EXCEPT ![r] = "preHandler"]
  /\ UNCHANGED <<idempotency, receipts, rid, attempt, outcomes, delays, txOutcome,
                 error, ledger, height, resp, faults>>
  /\ UNCHANGED classVars
  /\ lib' = lib
  /\ auditEvents' = auditEvents

NextRetire ==
  \/ SubmitRetire(1)
  \/ Step(1)

SpecRetire == Init /\ [][NextRetire]_vars

\* the request was answered 400 with the given code, and left no receipt and
\* no submission
RejectedWith(r, code) ==
  /\ pc[r] = "done"
  /\ resp[r].status = 400
  /\ resp[r].code = code
  /\ rid[r] = 0
  /\ receipts = <<>>
  /\ Accepted(r) = {}

\* the balance the pre-flight read reports for a retirement
PreflightBalance(body) ==
  IF body.classId = "" THEN (IF body.holder = "0xh1" THEN 0 ELSE 5000) ELSE 1000

\* C33: a retirement with a quantity that is not positive is answered
\* BAD_REQUEST, one whose pre-flight balance is below its quantity
\* INSUFFICIENT_BALANCE, both without a receipt or a submission; any other
\* retirement gets its receipt and is never answered with either code.
C33_RetireClientErrorsFirst ==
  \A r \in Reqs :
    (req[r].body.kind = "RETIRE" /\ PastValidation(r) /\ resp[r].status # 500)
    => LET body == req[r].body IN
       /\ body.quantity <= 0 => RejectedWith(r, "BAD_REQUEST")
       /\ (body.quantity > 0 /\ PreflightBalance(body) < body.quantity)
            => RejectedWith(r, "INSUFFICIENT_BALANCE")
       /\ (body.quantity > 0 /\ PreflightBalance(body) >= body.quantity)
            => /\ rid[r] # 0
               /\ resp[r].code \notin {"BAD_REQUEST", "INSUFFICIENT_BALANCE"}

\* a retirement of 1001 units has been turned down for its balance
C33_Witness ==
  /\ req[1].body.kind = "RETIRE"
  /\ req[1].body.quantity = 1001
  /\ req[1].body.classId = "A"
  /\ RejectedWith(1, "INSUFFICIENT_BALANCE")

\* ------------------------------------------- the Idempotency-Key header
\* the values of the Idempotency-Key header: a UUID, no header at all, the
\* empty string, and a string that is not a UUID
Headers == Keys \cup {"undefined", "", "not-a-uuid"}

\* the requests of this section: a retirement (POST) or a receipt read (GET)
KeyedBodies ==
  {[kind |-> "RETIRE", classId |-> "A", holder |-> "0xh2", quantity |-> 100]}
    \cup {[kind |-> "GET", classId |-> "none", adapterTxId |-> id] : id \in 1..NumReqs}

\* an authenticated request arrives with any Idempotency-Key header
SubmitKeyed(r) ==
  /\ pc[r] = "idle"
  /\ \A q \in Reqs : q < r => pc[q] # "idle"
  /\ \E k \in Headers, b \in KeyedBodies, o \in Orgs :
       req' = [req EXCEPT ![r] = [key |-> k, body |-> b, org |-> o]]
  /\ arrived' = [arrived EXCEPT ![r] = {q \in Reqs : pc[q] = "done"}]
  /\ pc' = [pc EXCEPT ![r] = "validation"]
  /\ UNCHANGED <<idempotency, receipts, rid, attempt, outcomes, delays, txOutcome,
                 error, ledger, height, resp, faults>>
  /\ UNCHANGED classVars
  /\ lib' = lib
  /\ auditEvents' = auditEvents

\* the headers part of a POST route's schema: 'idempotency-key' is required
\* and has format uuid
headersSchema(key) == key # "undefined" /\ IdempotencyKeySchema(key)

\* the error the framework raises for a request that fails a route schema
ValidationError == [isApp |-> FALSE, code |-> "FST_ERR_VALIDATION",
                    message |-> "headers/idempotency-key", traceId |-> NoTrace]

\* getStatusCodeFromError: the status of an AppError, 500 for any other error
getStatusCodeFromError(e, statusCode) == IF e.isApp THEN statusCode ELSE 500

\* the validation stage of a route, run before the preHandler hooks: every
\* POST route declares the headers schema, the receipt route declares none;
\* a failure goes to the error handler registered with setErrorHandler
ValidateHeaders(r) ==
  /\ pc[r] = "validation"
  /\ IF routeMethod(req[r].body.kind) = "POST" /\ ~headersSchema(req[r].key)
       THEN Reply(r, ErrorReply(ValidationError,
                                getStatusCodeFromError(ValidationError, 400)))
       ELSE pc' = [pc EXCEPT ![r] = "preHandler"] /\ resp' = resp
  /\ UNCHANGED <<req, arrived, idempotency, receipts, rid, attempt, outcomes, delays,
                 txOutcome, error, ledger, height, faults>>
  /\ UNCHANGED classVars
  /\ lib' = lib
  /\ auditEvents' = auditEvents

\* the handler of GET /v1/receipts/:adapterTxId
ReceiptRoute(r) ==
  /\ pc[r] = "handler"
  /\ req[r].body.kind = "GET"
  /\ LET adapterTxId == req[r].body.adapterTxId IN
     \/ /\ NoFault
        /\ IF adapterTxId \in DOMAIN receipts
             THEN Reply(r, [status |-> 200, code |-> "OK", receiptId |-> adapterTxId,
                            txHash |-> getReceipt(receipts, adapterTxId).txHash,
                            receipt |-> getReceipt(receipts, adapterTxId)])
             ELSE Reply(r, [ErrorReply(AppError("BAD_REQUEST", "Receipt not found"), 404)
                              EXCEPT !.receiptId = adapterTxId])
     \/ /\ Fault
        /\ Reply(r, [ErrorReply(AppError("DATABASE_ERROR", "Failed to get receipt"), 500)
                       EXCEPT !.receiptId = adapterTxId])
  /\ UNCHANGED <<req, arrived, idempotency, receipts, rid, attempt, outcomes, delays,
                 txOutcome, error, ledger, height>>
  /\ UNCHANGED classVars
  /\ lib' = lib
  /\ auditEvents' = auditEvents

NextKey ==
  \/ SubmitKeyed(1)
  \/ ValidateHeaders(1)
  \/ ReceiptRoute(1)
  \/ Step(1)

SpecKey == Init /\ [][NextKey]_vars

\* the guard's own answer to a request: 400 BAD_REQUEST, nothing done for it
GuardRejected(r) ==
  /\ resp[r].status = 400
  /\ resp[r].code = "BAD_REQUEST"
  /\ rid[r] = 0
  /\ receipts = <<>>
  /\ Accepted(r) = {}

\* C34: a mutating request whose Idempotency-Key header is missing or is not
\* a UUID is answered 400 BAD_REQUEST and has no receipt and no ledger
\* submission; a request with a non-mutating method is never answered by the
\* guard (no replay, no conflict, no failed lookup).
C34_KeyRequired ==
  \A r \in Reqs :
    pc[r] = "done"
    => /\ (routeMethod(req[r].body.kind) \in MutatingMethods
             /\ extractIdempotencyKey(req[r].key) # NoError)
            => GuardRejected(r)
       /\ routeMethod(req[r].body.kind) \notin MutatingMethods
            => /\ resp[r].code # "IDEMPOTENT_REPLAY"
               /\ "message" \in DOMAIN resp[r]
                    => resp[r].message # "Failed to check idempotency"

\* --------------------------------- concurrent class resolution, no seed rows
\* calls of resolveClassId interleaved at their two store round trips, on a
\* table that starts empty
NextResolve ==
  \/ \E c \in Reqs, t \in ClassTriples : ResolveFind(c, t)
  \/ \E c \in Reqs : ResolveCreate(c)

SpecResolve == Init /\ [][NextResolve]_vars

\* the create of the call caller c has in progress is bound to fail: a row
\* with the class id it derived is already in the table (unique index)
CreateMustFail(c) ==
  /\ resolving[c] # NoTriple
  /\ \E m \in classMap :
       m.classId = generateClassId(resolving[c].projectId, resolving[c].vintageStart,
                                   resolving[c].vintageEnd)

\* C35: when calls of resolveClassId for one unseen triple are interleaved,
\* none of them fails (no call that found no row meets a row with its class
\* id when it creates), all of them return the same class id, and once one
\* has returned the table holds exactly one row for the triple.
C35_ResolveIdempotent ==
  /\ \A c \in Reqs : ~CreateMustFail(c)
  /\ \A x, y \in resolved :
       ( /\ x.projectId = y.projectId
         /\ x.vintageStart = y.vintageStart
         /\ x.vintageEnd = y.vintageEnd ) => x.classId = y.classId
  /\ \A x \in resolved :
       Cardinality(MatchingRows([projectId |-> x.projectId,
                                 vintageStart |-> x.vintageStart,
                                 vintageEnd |-> x.vintageEnd])) = 1

\* ------------------------------------------- the class id of an issuance
\* `${projectId}`: the string a project id's characters make up
projectIdString(chars) ==
  CASE chars = <<"P", "R", "J", "0", "0", "1">> -> "PRJ001"
    [] OTHER -> "other"

\* the arguments finalizeIssuance passes to resolveClassId
classTriple(body) ==
  [projectId |-> projectIdString(body.projectId), vintageStart |-> body.vintageStart,
   vintageEnd |-> body.vintageEnd]

\* the windows of the issuances below: one the seed script has a row for and
\* one it has none for
IssuanceWindows == {<<"2020-01-01", "2020-12-31">>, <<"2010-01-01", "2010-01-02">>}

\* issuance requests for project PRJ001, without a classId and with one
DerivedBodies ==
  {[kind |-> "ISSUE", projectId |-> <<"P", "R", "J", "0", "0", "1">>,
    vintageStart |-> w[1], vintageEnd |-> w[2]] : w \in IssuanceWindows}
  \cup
  {[kind |-> "ISSUE", classId |-> <<"class_123">>,
    projectId |-> <<"P", "R", "J", "0", "0", "1">>,
    vintageStart |-> w[1], vintageEnd |-> w[2]] : w \in IssuanceWindows}

\* an issuance request arrives, with or without a classId
SubmitDerived(r) ==
  /\ pc[r] = "idle"
  /\ \A q \in Reqs : q < r => pc[q] # "idle"
  /\ \E k \in Keys, b \in DerivedBodies, o \in Orgs :
       req' = [req EXCEPT ![r] = [key |-> k, body |-> b, org |-> o]]
  /\ arrived' = [arrived EXCEPT ![r] = {q \in Reqs : pc[q] = "done"}]
  /\ pc' = [pc EXCEPT ![r] = "preHandler"]
  /\ UNCHANGED <<idempotency, receipts, rid, attempt, outcomes, delays, txOutcome,
                 error, ledger, height, resp, faults>>
  /\ UNCHANGED classVars
  /\ lib' = lib
  /\ auditEvents' = auditEvents

\* finalizeIssuance calling resolveClassId, up to the call's first await:
\* findFirst by the triple; a row that is found is the answer
IssuanceResolveFind(r) ==
  /\ pc[r] = "audited"
  /\ handlerRejects(req[r].body, r) = NoError
  /\ NeedsResolve(r)
  /\ LET t == classTriple(req[r].body) IN
     \/ /\ NoFault
        /\ IF MatchingRows(t) # {}
             THEN /\ \E m \in MatchingRows(t) :
                       /\ classIdOf' = [classIdOf EXCEPT ![r] = m.classId]
                       /\ resolved' = resolved \cup {Returned(t, m.classId)}
                  /\ UNCHANGED <<resolving, pc>>
             ELSE /\ resolving' = [resolving EXCEPT ![r] = t]
                  /\ pc' = [pc EXCEPT ![r] = "resolving"]
                  /\ UNCHANGED <<classIdOf, resolved>>
        /\ resp' = resp
     \/ \* the read fails: DATABASE_ERROR, passed on by the handler's catch
        /\ Fault
        /\ Reply(r, ErrorReply(handlerThrows(AppError("DATABASE_ERROR",
                                                      "Failed to resolve class ID"), r), 500))
        /\ UNCHANGED <<resolving, resolved, classIdOf>>
  /\ classMap' = classMap
  /\ UNCHANGED tokenVars
  /\ UNCHANGED <<req, arrived, idempotency, receipts, rid, attempt, outcomes, delays,
                 txOutcome, error, ledger, height>>
  /\ lib' = lib
  /\ auditEvents' = auditEvents

\* resolveClassId after it found no row: generateClassId, then
\* prisma.classMap.create, which fails when a row with that classId exists
\* or the store fails
IssuanceResolveCreate(r) ==
  /\ pc[r] = "resolving"
  /\ LET t == resolving[r]
         classId == generateClassId(t.projectId, t.vintageStart, t.vintageEnd)
         free == \A m \in classMap : m.classId # classId
     IN
     \/ /\ free
        /\ NoFault
        /\ classMap' = classMap \cup {Returned(t, classId)}
        /\ resolved' = resolved \cup {Returned(t, classId)}
        /\ classIdOf' = [classIdOf EXCEPT ![r] = classId]
        /\ pc' = [pc EXCEPT ![r] = "audited"]
        /\ resp' = resp
     \/ /\ IF free THEN Fault ELSE NoFault
        /\ Reply(r, ErrorReply(handlerThrows(AppError("DATABASE_ERROR",
                                                      "Failed to resolve class ID"), r), 500))
        /\ UNCHANGED <<classMap, resolved, classIdOf>>
  /\ resolving' = [resolving EXCEPT ![r] = NoTriple]
  /\ UNCHANGED tokenVars
  /\ UNCHANGED <<req, arrived, idempotency, receipts, rid, attempt, outcomes, delays,
                 txOutcome, error, ledger, height>>
  /\ lib' = lib
  /\ auditEvents' = auditEvents

\* one issuance handled alone, on a database the seed script may have filled
NextDerive ==
  \/ SubmitDerived(1)
  \/ IssuanceResolveFind(1)
  \/ IssuanceResolveCreate(1)
  \/ Seed
  \/ Step(1)

SpecDerive == Init /\ [][NextDerive]_vars

\* the receipt of issuance r
IssuanceReceipt(r) == receipts[rid[r]]

DifferingBodies ==
  {Object(<<<<"classId", Atom(c)>>, <<"quantity", Atom("1")>>,
            <<"meta", Object(<<<<"quantity", Atom(q)>>, <<"holder", Atom(h)>>>>)>>>>) :
     c \in {"A", "B", "C"}, q \in {"2", "3"}, h \in {"0xh", "0xg"}}

\* a call of generateBodyHash on one of them
CallGenerateBodyHashDiffering ==
  /\ \E body \in DifferingBodies :
       Record([fn |-> "generateBodyHash", args |-> body, result |-> generateBodyHash(body)])
  /\ UNCHANGED pipelineVars
  /\ UNCHANGED classVars

SpecBodyDiff == Init /\ [][CallGenerateBodyHashDiffering]_vars

\* C37: two bodies that differ in the value of a field, a field of a nested
\* object included, get different body hashes.
C37_DifferentBodiesDifferentHashes ==
  \A i, j \in DOMAIN lib :
    (/\ lib[i].fn = "generateBodyHash"
     /\ lib[j].fn = "generateBodyHash"
     /\ Unordered(lib[i].args) # Unordered(lib[j].args))
    => lib[i].result # lib[j].result

\* ------------------------------------------------- what a receipt's fields say
\* the confirmed, non-reverted transactions submitted for request r
Confirmed(r) == {n \in 1..maxRetries : ledger[<<r, n>>] = "mined"}

TokenClassIds == {"class_123", "class_456"}
CreateTokenMappingRequests ==
  [classId : TokenClassIds, chainId : {"137"}, contractAddress : {"0xabcd"},
   tokenId : {"token_1", "token_2"}]

\* the TokenMapping a call returns for a row, and null
TokenMapping(row) ==
  [classId |-> row.classId, chainId |-> row.chainId,
   contractAddress |-> row.contractAddress, tokenId |-> row.tokenId]
null == [classId |-> "null"]

\* prisma.tokenMap.findUnique({ where: { classId } }) on a table
findUnique(table, classId) == {m \in table : m.classId = classId}

\* a read that answers null whatever the table holds
getTokenMappingBlind(table, classId) == null

\* getTokenMapping(classId): the row's mapping, or null when there is none
getTokenMapping(table, classId) ==
  IF findUnique(table, classId) = {} THEN null
  ELSE TokenMapping(CHOOSE m \in findUnique(table, classId) : TRUE)

\* createTokenMapping up to its first await: findUnique by the classId
CreateFind(c, request) ==
  /\ creating[c] = NoCreate
  /\ creating' = [creating EXCEPT ![c] =
       [classId |-> request.classId, chainId |-> request.chainId,
        contractAddress |-> request.contractAddress, tokenId |-> request.tokenId,
        existing |-> findUnique(tokenMap, request.classId) # {}]]
  /\ tokenMap' = tokenMap
  /\ lib' = lib
  /\ UNCHANGED <<classMap, resolving, resolved, classIdOf>>
  /\ UNCHANGED pipelineVars

\* createTokenMapping after the read: prisma.tokenMap.update of the row that
\* was found, or prisma.tokenMap.create, which fails when a row with the
\* classId exists by now (unique index); a failure is DATABASE_ERROR and
\* writes nothing
CreateWrite(c) ==
  /\ creating[c] # NoCreate
  /\ LET request == TokenMapping(creating[c])
         others == {m \in tokenMap : m.classId # request.classId}
         written ==
           IF creating[c].existing
             THEN findUnique(tokenMap, request.classId) # {}
             ELSE findUnique(tokenMap, request.classId) = {}
     IN
     \/ /\ written
        /\ tokenMap' = others \cup {request}
        /\ Record([fn |-> "createTokenMapping", args |-> request, result |-> request,
                   updated |-> creating[c].existing])
     \/ /\ tokenMap' = tokenMap
        /\ lib' = lib
  /\ creating' = [creating EXCEPT ![c] = NoCreate]
  /\ UNCHANGED <<classMap, resolving, resolved, classIdOf>>
  /\ UNCHANGED pipelineVars

\* a call of getTokenMapping
CallGetTokenMapping ==
  /\ \E classId \in TokenClassIds :
       Record([fn |-> "getTokenMapping", args |-> [classId |-> classId],
               result |-> getTokenMapping(tokenMap, classId)])
  /\ UNCHANGED tokenVars
  /\ UNCHANGED <<classMap, resolving, resolved, classIdOf>>
  /\ UNCHANGED pipelineVars

\* calls of createTokenMapping, interleaved at their awaits, and reads
NextTokenMap ==
  \/ \E c \in Reqs, request \in CreateTokenMappingRequests : CreateFind(c, request)
  \/ \E c \in Reqs : CreateWrite(c)
  \/ CallGetTokenMapping

SpecTokenMap == Init /\ [][NextTokenMap]_vars

\* the newest call on record
LastCall == lib[Len(lib)]

\* C39: a getTokenMapping(r.classId) that follows the return of
\* createTokenMapping(r) returns r's chainId, contractAddress and tokenId,
\* whatever was mapped before; the table never holds two mappings for one
\* classId; and getTokenMapping answers null exactly when the table has no
\* mapping for the classId.
C39_TokenMappingLastWriterWins ==
  /\ (/\ Len(lib) = 2
      /\ lib[1].fn = "createTokenMapping"
      /\ lib[2].fn = "getTokenMapping"
      /\ lib[2].args.classId = lib[1].args.classId)
     => /\ lib[2].result.classId = lib[1].args.classId
        /\ lib[2].result.chainId = lib[1].args.chainId
        /\ lib[2].result.contractAddress = lib[1].args.contractAddress
        /\ lib[2].result.tokenId = lib[1].args.tokenId
  /\ \A classId \in TokenClassIds : Cardinality(findUnique(tokenMap, classId)) <= 1
  /\ (lib # <<>> /\ LastCall.fn = "getTokenMapping")
     => (LastCall.result = null <=> findUnique(tokenMap, LastCall.args.classId) = {})

\* a call has replaced the mapping of class_123 by one with token_2, which a
\* read then returned, while class_456 has no mapping
C39_Witness ==
  /\ Len(lib) = 2
  /\ lib[1].fn = "createTokenMapping"
  /\ lib[1].updated
  /\ lib[1].args.classId = "class_123"
  /\ lib[1].args.tokenId = "token_2"
  /\ lib[2].fn = "getTokenMapping"
  /\ lib[2].args.classId = "class_123"
  /\ lib[2].result.tokenId = "token_2"
  /\ findUnique(tokenMap, "class_456") = {}

====
